---- MODULE Spec2Model ----
(***************************************************************************)
(* Model of the worker: the task boundary (src/worker/app.py,              *)
(* execute_task), the agent loop (src/worker/agent.py, run_login_test),    *)
(* the CDP session it drives (src/worker/browser.py, BrowserSession) and   *)
(* the WebSocket client underneath (src/worker/browser.py, _WebSocket).    *)
(*                                                                         *)
(* Strings are sequences of tokens.  A token is a TLA+ string standing for *)
(* a run of characters that contains neither a double quote nor a          *)
(* backslash; those two characters are the tokens Q and BS of their own.   *)
(* An optional value (Python None or a value) is a sequence of length <= 1.*)
(* Frames of the WebSocket client are sequences of bytes (0..255).         *)
(***************************************************************************)
EXTENDS Integers, Sequences, FiniteSets, TLC

(***************************************************************************)
(* Bounds of the model.  run_login_test sets max_turns = 25 and navigate   *)
(* polls the title 15 times; the model runs the same code with the smaller *)
(* budgets below.                                                          *)
(***************************************************************************)
max_turns == 2

MaxDiscard == 1

MaxFaults == 1

TitlePolls == 1

(***************************************************************************)
(* Strings                                                                 *)
(***************************************************************************)
Q == "\""

BS == "\\"

NoneVal == <<>>

Some(v) == <<v>>

\* pat in s  (Python's substring test)
Contains(s, pat) ==
    \E i \in 0..(Len(s) - Len(pat)) :
        \A j \in 1..Len(pat) : s[i + j] = pat[j]

\* str.lower() on the tokens the model uses
LowerTok(t) ==
    CASE t = "LOGIN" -> "login"
      [] t = "Login" -> "login"
      [] t = "Cloudflare" -> "cloudflare"
      [] t = "Attention Required" -> "attention required"
      [] OTHER -> t

Lower(s) == [i \in 1..Len(s) |-> LowerTok(s[i])]

\* json.dumps of a str, without the surrounding quotes
RECURSIVE JsonEscape(_)
JsonEscape(s) ==
    IF s = <<>> THEN <<>>
    ELSE (CASE Head(s) = Q -> <<BS, Q>>
            [] Head(s) = BS -> <<BS, BS>>
            [] OTHER -> <<Head(s)>>) \o JsonEscape(Tail(s))

\* "\n".join(list of str)
RECURSIVE JoinLines(_)
JoinLines(ss) ==
    IF ss = <<>> THEN <<>>
    ELSE IF Len(ss) = 1 THEN ss[1]
    ELSE ss[1] \o <<"\n">> \o JoinLines(Tail(ss))

(***************************************************************************)
(* Tool calls and model responses                                          *)
(***************************************************************************)
ArgKeys ==
    {"url", "selector", "value", "filename", "key", "ms",
     "result", "reason", "account_info", "offers"}

\* a Python dict of arguments: every key maps to an optional string
Args(a) == [k \in ArgKeys |-> IF k \in DOMAIN a THEN Some(a[k]) ELSE NoneVal]

NoArgs == [k \in ArgKeys |-> NoneVal]

HasKey(args, k) == args[k] # NoneVal

\* dict.get(k, default)
Get(args, k, default) == IF HasKey(args, k) THEN args[k][1] ELSE default

TextPart(t) == [kind |-> "text", text |-> t, name |-> "", args |-> NoArgs]

CallPart(n, a) == [kind |-> "functionCall", text |-> <<>>, name |-> n, args |-> a]

PassPattern == <<Q, "result", Q, ":", " ", Q, "pass", Q>>

PassPatternCompact == <<Q, "result", Q, ":", Q, "pass", Q>>

PLAIN_TEXT == <<"I could not log in.">>

\* a text that quotes a passing result
QUOTING_TEXT == <<"The output was {">> \o PassPattern \o <<"}">>

PLAIN_REASON == <<"Login worked.">>

QUOTING_REASON == <<"Page said ">> \o PassPattern

DonePass(r) ==
    CallPart("done", Args([result |-> <<"pass">>, reason |-> r,
                           account_info |-> <<"Jane, 2 accounts">>,
                           offers |-> <<"Offer A">>]))

DoneFail(r) ==
    CallPart("done", Args([result |-> <<"fail">>, reason |-> r,
                           account_info |-> <<"nothing shown">>]))

Navigate == CallPart("navigate", Args([url |-> <<"https://site/", "login">>]))

NavigateNoUrl == CallPart("navigate", NoArgs)

Click == CallPart("click", Args([selector |-> <<"#submit">>]))

Fill == CallPart("fill", Args([selector |-> <<"#email">>, value |-> <<"jane">>]))

GetPageText == CallPart("get_page_text", NoArgs)

GetPageHtml == CallPart("get_page_html", NoArgs)

Screenshot == CallPart("screenshot", Args([filename |-> <<"a.png">>]))

GetCurrentUrl == CallPart("get_current_url", NoArgs)

PressKey(k) == CallPart("press_key", Args([key |-> <<k>>]))

Wait == CallPart("wait", Args([ms |-> <<"100">>]))

Hover == CallPart("hover", Args([selector |-> <<"#submit">>]))

\* The driving model is an input.  Each run follows one scenario: a
\* sequence of sets of responses (each response the parts the model returns),
\* the k-th set for the k-th request and the last set for every later one.
TextScenario ==
    << { <<>>,
         <<TextPart(PLAIN_TEXT)>>,
         <<TextPart(QUOTING_TEXT)>>,
         <<TextPart(PLAIN_TEXT), TextPart(QUOTING_TEXT)>>,
         <<Wait>>,
         <<TextPart(PLAIN_TEXT), GetCurrentUrl>> } >>

DoneScenario ==
    << { <<DonePass(PLAIN_REASON)>>,
         <<DoneFail(PLAIN_REASON)>>,
         <<DoneFail(QUOTING_REASON)>>,
         <<CallPart("done", NoArgs)>>,
         <<DonePass(PLAIN_REASON), DoneFail(PLAIN_REASON)>>,
         <<DoneFail(PLAIN_REASON), DonePass(PLAIN_REASON)>>,
         <<Wait>>,
         <<TextPart(PLAIN_TEXT)>> } >>

MixedScenario ==
    << { <<Wait, DonePass(PLAIN_REASON)>>,
         <<DonePass(PLAIN_REASON), GetCurrentUrl>>,
         <<DoneFail(PLAIN_REASON), Wait, Hover>>,
         <<GetCurrentUrl, DoneFail(PLAIN_REASON), Click>>,
         <<Hover>> } >>

ErrorScenario ==
    << { <<Screenshot, GetCurrentUrl>>,
         <<NavigateNoUrl, Wait>>,
         <<GetCurrentUrl, GetPageText>>,
         <<GetPageHtml, Screenshot, Hover>>,
         <<DoneFail(PLAIN_REASON)>> } >>

LoginScenario ==
    << { <<Fill, Fill>>, <<Click>>, <<Click, GetCurrentUrl>> },
       { <<GetCurrentUrl>>, <<DonePass(PLAIN_REASON)>> },
       { <<DonePass(PLAIN_REASON)>> } >>

ToolScenario ==
    << { <<Navigate>>,
         <<PressKey("Enter"), PressKey("Tab")>>,
         <<GetPageText>>,
         <<Fill, Click>> },
       { <<TextPart(PLAIN_TEXT)>> } >>

TimerScenario ==
    << { <<Fill, Fill, Click, GetCurrentUrl, DonePass(PLAIN_REASON)>>,
         <<Click, GetCurrentUrl, Click, GetCurrentUrl>>,
         <<GetCurrentUrl, Click>> },
       { <<GetCurrentUrl, DonePass(PLAIN_REASON)>>, <<TextPart(PLAIN_TEXT)>> },
       { <<DonePass(PLAIN_REASON)>> } >>

DoneWith(v, r, a, o) ==
    CallPart("done", Args([result |-> v, reason |-> r, account_info |-> a,
                           offers |-> o]))

\* completion calls whose arguments quote a passing result
VerdictScenario ==
    << { <<DoneWith(<<"fail">>, QUOTING_REASON, PassPattern, PassPatternCompact)>>,
         <<DoneWith(<<"fail">>, PassPatternCompact, <<>>, <<>>)>>,
         <<DoneWith(<<"pass">>, QUOTING_REASON, <<Q>>, <<BS, Q>>)>>,
         <<DoneWith(<<"PASS">>, PLAIN_REASON, <<>>, <<>>)>>,
         <<DoneWith(<<"pass", "ed">>, PLAIN_REASON, <<>>, <<>>)>>,
         <<DoneWith(<<"fail", Q, ",", " ">> \o PassPattern, <<BS>> \o PassPattern, <<>>, <<>>)>>,
         <<DonePass(PLAIN_REASON), DoneWith(<<"fail">>, QUOTING_REASON, <<>>, <<>>)>>,
         <<DoneWith(<<"fail">>, QUOTING_REASON, <<>>, <<>>), Wait, DonePass(QUOTING_REASON)>>,
         <<CallPart("done", Args([reason |-> PassPattern]))>> } >>

Scenarios ==
    { TextScenario, DoneScenario, MixedScenario, ErrorScenario, LoginScenario,
      ToolScenario, TimerScenario, VerdictScenario }

\* the responses the model may give to request number k
ResponsesAt(sc, k) == sc[IF k <= Len(sc) THEN k ELSE Len(sc)]

IsCall(p) == p.kind = "functionCall"

IsText(p) == p.kind = "text"

\* [p for p in model_parts if "functionCall" in p]
FunctionCallsOf(parts) == SelectSeq(parts, IsCall)

\* [p["text"] for p in model_parts if "text" in p]
TextPartsOf(parts) ==
    LET ts == SelectSeq(parts, IsText) IN [i \in 1..Len(ts) |-> ts[i].text]

(***************************************************************************)
(* CDP commands, the wire and the browser tools                            *)
(***************************************************************************)
Cmd(m, p) == [method |-> m, param |-> p]

Eval(e) == Cmd("Runtime.evaluate", e)

\* what a tool does next
SendOp(c, lbl) == [op |-> "send", cmd |-> c, at |-> lbl, text |-> <<>>]

ReturnOp(t) == [op |-> "return", cmd |-> Cmd("", ""), at |-> "", text |-> t]

RaiseOp(t) == [op |-> "raise", cmd |-> Cmd("", ""), at |-> "", text |-> t]

\* str(KeyError(k)), the message of tool_input[k] on a missing key
KeyErrorText(k) == <<"'", k, "'">>

CHALLENGE == <<"Just a moment... ", "Cloudflare">>

\* "cloudflare" in title.lower() or "attention required" in title.lower()
IsChallenge(title) ==
    \/ Contains(Lower(title), <<"cloudflare">>)
    \/ Contains(Lower(title), <<"attention required">>)

NOT_FOUND == <<"NOT_FOUND">>

ElementNotFoundText(sel) == <<"Element '">> \o sel \o <<"' not found.">>

\* key_map.get(key, (0, ""))[1] is non-empty only for Enter
KeyHasText(key) == key = <<"Enter">>

Last(s) == s[Len(s)]

\* BrowserSession.navigate: at is the label of the _send that has just
\* returned, vals the values the _sends of this call returned
NavigateNext(url, at, vals) ==
    CASE at = "entry" -> SendOp(Cmd("Page.navigate", "url"), "navigated")
      [] at = "navigated" -> SendOp(Eval("document.title"), "title")
      [] at = "title" ->
            IF IsChallenge(Last(vals)) /\ Len(vals) - 1 < TitlePolls
            THEN SendOp(Eval("document.title"), "title")
            ELSE SendOp(Eval("window.location.href"), "href")
      [] OTHER ->
            ReturnOp(<<"Navigated to ">> \o Last(vals) \o <<" - title: ">>
                     \o vals[Len(vals) - 1])

\* json.loads of the text the coordinate script returns
JsonLoads(t) == [x |-> t[2], y |-> t[4]]

\* Input.dispatchMouseEvent with type, x, y, button "left", clickCount 1
MouseCmd(type, pos) ==
    [method |-> "Input.dispatchMouseEvent", param |-> type, x |-> pos.x, y |-> pos.y,
     button |-> "left", clickCount |-> 1]

\* Input.insertText with text
InsertCmd(value) == [method |-> "Input.insertText", param |-> "text", text |-> value]

\* variant: the release is dispatched before the press
ClickNextReleaseFirst(sel, at, vals) ==
    CASE at = "entry" -> SendOp(Eval("coords"), "coords")
      [] at = "coords" ->
            IF Last(vals) = NOT_FOUND THEN ReturnOp(ElementNotFoundText(sel))
            ELSE SendOp(MouseCmd("mouseReleased", JsonLoads(Last(vals))), "pressed")
      [] at = "pressed" ->
            SendOp(MouseCmd("mousePressed", JsonLoads(vals[1])), "released")
      [] at = "released" -> SendOp(Eval("window.location.href"), "href")
      [] OTHER ->
            ReturnOp(<<"Clicked '">> \o sel \o <<"'. Current URL: ">> \o Last(vals))

\* BrowserSession.click
ClickNext(sel, at, vals) ==
    CASE at = "entry" -> SendOp(Eval("coords"), "coords")
      [] at = "coords" ->
            IF Last(vals) = NOT_FOUND THEN ReturnOp(ElementNotFoundText(sel))
            ELSE SendOp(MouseCmd("mousePressed", JsonLoads(Last(vals))), "pressed")
      [] at = "pressed" ->
            SendOp(MouseCmd("mouseReleased", JsonLoads(vals[1])), "released")
      [] at = "released" -> SendOp(Eval("window.location.href"), "href")
      [] OTHER ->
            ReturnOp(<<"Clicked '">> \o sel \o <<"'. Current URL: ">> \o Last(vals))

\* variant: the text is inserted without looking at what the focus script
\* returned
FillNextUnchecked(sel, value, at, vals) ==
    CASE at = "entry" -> SendOp(Eval("focus"), "focus")
      [] at = "focus" -> SendOp(InsertCmd(value), "insert1")
      [] at = "insert1" -> SendOp(InsertCmd(value), "insert2")
      [] at = "insert2" -> SendOp(Eval("change"), "change")
      [] OTHER -> ReturnOp(<<"Filled '">> \o sel \o <<"' with value.">>)

\* BrowserSession.fill: the body holds the Input.insertText _send twice
FillNext(sel, value, at, vals) ==
    CASE at = "entry" -> SendOp(Eval("focus"), "focus")
      [] at = "focus" ->
            IF Last(vals) = NOT_FOUND THEN ReturnOp(ElementNotFoundText(sel))
            ELSE SendOp(InsertCmd(value), "insert1")
      [] at = "insert1" -> SendOp(InsertCmd(value), "insert2")
      [] at = "insert2" -> SendOp(Eval("change"), "change")
      [] OTHER -> ReturnOp(<<"Filled '">> \o sel \o <<"' with value.">>)

\* BrowserSession.press_key
PressKeyNext(key, at, vals) ==
    CASE at = "entry" -> SendOp(Cmd("Input.dispatchKeyEvent", "rawKeyDown"), "down")
      [] at = "down" ->
            IF KeyHasText(key)
            THEN SendOp(Cmd("Input.dispatchKeyEvent", "char"), "char")
            ELSE SendOp(Cmd("Input.dispatchKeyEvent", "keyUp"), "up")
      [] at = "char" -> SendOp(Cmd("Input.dispatchKeyEvent", "keyUp"), "up")
      [] OTHER -> ReturnOp(<<"Pressed key '">> \o key \o <<"'.">>)

\* get_page_text, get_page_html, get_current_url: one _eval, its value returned
EvalToolNext(expr, at, vals) ==
    IF at = "entry" THEN SendOp(Eval(expr), "value") ELSE ReturnOp(Last(vals))

\* BrowserSession.screenshot: the __init__ that is in force (the second
\* definition in the class body) never sets screenshot_dir
ScreenshotNext(at, vals) ==
    RaiseOp(<<"'BrowserSession' object has no attribute 'screenshot_dir'">>)

\* variant: a name outside the table is an error
ExecuteToolNextRaising(name, args, at, vals) ==
    RaiseOp(<<"Unknown tool: ", name>>)

\* execute_tool: dispatch by name
ExecuteToolNext(name, args, at, vals) ==
    CASE name = "navigate" ->
            IF ~HasKey(args, "url") THEN RaiseOp(KeyErrorText("url"))
            ELSE NavigateNext(args["url"][1], at, vals)
      [] name = "click" ->
            IF ~HasKey(args, "selector") THEN RaiseOp(KeyErrorText("selector"))
            ELSE ClickNext(args["selector"][1], at, vals)
      [] name = "fill" ->
            IF ~HasKey(args, "selector") THEN RaiseOp(KeyErrorText("selector"))
            ELSE IF ~HasKey(args, "value") THEN RaiseOp(KeyErrorText("value"))
            ELSE FillNext(args["selector"][1], args["value"][1], at, vals)
      [] name = "get_page_text" -> EvalToolNext("document.body.innerText", at, vals)
      [] name = "get_page_html" -> EvalToolNext("innerHTML", at, vals)
      [] name = "screenshot" -> ScreenshotNext(at, vals)
      [] name = "get_current_url" -> EvalToolNext("window.location.href", at, vals)
      [] name = "press_key" ->
            IF ~HasKey(args, "key") THEN RaiseOp(KeyErrorText("key"))
            ELSE PressKeyNext(args["key"][1], at, vals)
      [] name = "wait" ->
            ReturnOp(<<"Waited ">> \o Get(args, "ms", <<"2000">>) \o <<"ms.">>)
      [] OTHER -> ReturnOp(<<"Unknown tool: ", name>>)

\* the values the page may give for a command
PageValues(c) ==
    CASE c.param = "document.title" -> { <<"Home">>, CHALLENGE }
      [] c.param = "window.location.href" ->
            { <<"https://site/", "Login">>, <<"https://site/", "home">> }
      [] c.param = "coords" ->
            { NOT_FOUND, <<"{x:", "10", ",y:", "20", "}">>,
              <<"{x:", "300.5", ",y:", "45", "}">> }
      [] c.param = "focus" -> { NOT_FOUND, <<"OK">> }
      [] c.param = "document.body.innerText" -> { <<"Welcome Jane">> }
      [] c.param = "innerHTML" -> { <<"<form>">> }
      [] OTHER -> { <<>> }

\* messages on the wire: id 0 stands for a message without an id (an event);
\* re is the id of the command whose outcome the message reports
Response(i, v) == [id |-> i, re |-> i, error |-> NoneVal, value |-> v]

ErrorResponse(i, e) == [id |-> i, re |-> i, error |-> Some(e), value |-> <<>>]

Event == [id |-> 0, re |-> 0, error |-> NoneVal, value |-> <<"Page.frameNavigated">>]

CdpErrors == { <<"Cannot find context">> }

\* ids of earlier commands whose response may still arrive
StaleIds(target) == { i \in {target - 1} : i >= 1 }

\* what the browser may deliver while command target (a Cmd c) is awaited
Incoming(target, c) ==
    { Event }
    \cup { Response(i, <<"late">>) : i \in StaleIds(target) }
    \cup { Response(target, v) : v \in PageValues(c) }
    \cup { ErrorResponse(target, e) : e \in CdpErrors }

(***************************************************************************)
(* _WebSocket (src/worker/browser.py): frames are sequences of bytes        *)
(***************************************************************************)
RECURSIVE XorBits(_, _, _)
XorBits(a, b, n) ==
    IF n = 0 THEN 0
    ELSE (((a % 2) + (b % 2)) % 2) + 2 * XorBits(a \div 2, b \div 2, n - 1)

XorTable == [a \in 0..255 |-> [b \in 0..255 |-> XorBits(a, b, 8)]]

\* a ^ b on bytes
Xor(a, b) == XorTable[a][b]

\* payload[i] ^ mask[i % 4] for every i (indices from 0 in the source)
Mask(payload, key) ==
    LET p == payload \o <<>>
    IN [i \in 1..Len(p) |-> Xor(p[i], key[((i - 1) % 4) + 1])]

\* variant: the 16-bit length in little-endian order
Pack16LittleEndian(n) == <<n % 256, (n \div 256) % 256>>

\* struct.pack(">H", n)
Pack16(n) == <<(n \div 256) % 256, n % 256>>

\* struct.pack(">Q", n)
Pack64(n) ==
    <<0, 0, 0, 0>> \o
    <<(n \div 16777216) % 256, (n \div 65536) % 256, (n \div 256) % 256, n % 256>>

\* struct.unpack(">H" / ">Q", bytes)[0]
RECURSIVE Unpack(_)
Unpack(bytes) ==
    IF bytes = <<>> THEN 0
    ELSE 256 * Unpack(SubSeq(bytes, 1, Len(bytes) - 1)) + bytes[Len(bytes)]

\* elif length < 65536: the 16-bit extended length
ShortLength(n) == n < 65536

\* send: the length field of a frame, mask bit set
LengthField(n) ==
    IF n < 126 THEN <<128 + n>>
    ELSE IF ShortLength(n) THEN <<128 + 126>> \o Pack16(n)
    ELSE <<128 + 127>> \o Pack64(n)

\* send: the frame written for payload with the mask key drawn
SendFrame(payload, key) ==
    <<129>> \o LengthField(Len(payload)) \o key \o Mask(payload, key)

\* variant: the pong carries no payload
PongFrameEmpty(payload, key) == <<138, 128>> \o key

\* recv: the pong written for a ping with this payload
PongFrame(payload, key) ==
    <<138>>
    \o (IF Len(payload) < 126 THEN <<128 + Len(payload)>>
        ELSE <<128 + 126>> \o Pack16(Len(payload)))
    \o key \o Mask(payload, key)

\* close: the close frame
CloseFrame(key) == <<136, 128>> \o key

\* os.urandom(4)
MaskKeys == { <<0, 0, 0, 0>>, <<255, 1, 128, 77>>, <<18, 52, 86, 120>> }

\* _read_exact(n) on the unread bytes s
ReadExact(s, n) ==
    [ok |-> Len(s) >= n,
     bytes |-> IF Len(s) >= n THEN SubSeq(s, 1, n) ELSE <<>>,
     rest |-> IF Len(s) >= n THEN SubSeq(s, n + 1, Len(s)) ELSE <<>>]

EndOfStream ==
    [ok |-> FALSE, fin |-> FALSE, opcode |-> 0, is_masked |-> FALSE,
     payload |-> <<>>, rest |-> <<>>]

\* variant: the mask bit is ignored
MaskBitNever(b) == FALSE

\* (hdr[1] & 0x80) != 0
MaskBit(b) == b >= 128

\* (hdr[0] & 0x80) != 0
FinBit(b) == b >= 128

\* one pass of recv's loop up to the unmasked payload
ReadFrame(s) ==
    LET h == ReadExact(s, 2) IN
    IF ~h.ok THEN EndOfStream ELSE
    LET opcode == h.bytes[1] % 16
        is_masked == MaskBit(h.bytes[2])
        len7 == h.bytes[2] % 128
        e == ReadExact(h.rest, IF len7 = 126 THEN 2 ELSE IF len7 = 127 THEN 8 ELSE 0)
    IN
    IF ~e.ok THEN EndOfStream ELSE
    LET length == IF len7 >= 126 THEN Unpack(e.bytes) ELSE len7
        k == ReadExact(e.rest, IF is_masked THEN 4 ELSE 0)
    IN
    IF ~k.ok THEN EndOfStream ELSE
    LET pl == ReadExact(k.rest, length) IN
    IF ~pl.ok THEN EndOfStream ELSE
    [ok |-> TRUE, fin |-> FinBit(h.bytes[1]), opcode |-> opcode,
     is_masked |-> is_masked,
     payload |-> IF is_masked THEN Mask(pl.bytes, k.bytes) ELSE pl.bytes,
     rest |-> pl.rest]

\* if opcode == 0x9:
IsPing(opcode) == opcode = 9

\* variant: the close frame is not recognised
IsCloseNever(opcode) == FALSE

\* if opcode == 0x8:
IsClose(opcode) == opcode = 8

\* variant: only the last frame's payload is kept
AccumulateLast(msg, payload) == payload

\* message += payload
Accumulate(msg, payload) == msg \o payload

(***************************************************************************)
(* State                                                                   *)
(***************************************************************************)
VARIABLES
    scenario,         \* the responses the driving model may give, request by request
    faults,           \* CDP errors and transport failures the browser has caused
    pc,               \* position in run_login_test / BrowserSession.start
    turns,            \* iterations of the for loop begun = model requests made
    contents,         \* conversation history
    function_calls,   \* tool calls of the current response
    idx,              \* 1-based position in function_calls
    response_parts,   \* functionResponse parts of the current turn
    steps,            \* audit log
    final_summary,
    done_called,
    account_info,
    offers,
    login_click_time,
    login_load_time,
    login_duration,
    clock,            \* time.time()
    result,           \* result text of the call being processed
    at,               \* label of the last _send the running tool issued
    vals,             \* values the _sends of the running tool returned
    ret,              \* the dict run_login_test returned, if it returned
    exc,              \* the exception that is propagating, if any
    process,          \* BrowserSession._process: "None" or "Popen"
    procAlive,        \* the browser process is running
    ws,               \* BrowserSession._ws: "None" or "WebSocket"
    sockOpen,         \* the transport socket is open
    peerClosed,       \* the peer has closed or broken the connection
    msg_id,           \* BrowserSession._msg_id
    target_id,        \* id awaited by the _send in progress, 0 if none
    cur_cmd,          \* the command of the _send in progress
    discarded,        \* ids of the messages the _send in progress has discarded
    returned,         \* the last message a _send returned to its caller
    req,              \* the execute request: skill name, whether the API key is set
    responses,        \* the ExecuteResponses execute_task has returned
    wpc,              \* position in the _WebSocket client: ready, recv, closed
    peer,             \* what the peer does: "script" or "echo"
    script,           \* the frames the peer sends, as it built them
    inb,              \* bytes the peer has sent that the client has not read
    sent,             \* the frames the client has written to the socket
    out_payload,      \* the payload the caller passes to send
    message,          \* recv's accumulator
    recv_out,         \* outcome of the last recv call
    nread,            \* frames recv has consumed
    call_start,       \* nread when the recv call in progress began
    calls,            \* send and recv calls made
    user_data_dir,    \* BrowserSession._user_data_dir
    tmp_dirs,         \* the qa_chrome_ directories that exist on disk
    polls,            \* start: passes of the poll loop made
    pages,            \* start: the list the last poll returned, none if it raised
    ws_url,           \* start: the debugger URL selected
    package,          \* the skill classes the modules of skills/ define
    registry,         \* registry._registry: the classes registered
    discovered,       \* registry._discovered
    listing,          \* what the last list_skills call returned
    task_count,       \* get_skill calls made
    sessions,         \* the BrowserSession of every worker slot
    listener,         \* debug port -> slot whose browser listens on it, 0 if none
    run_status,       \* distributor: run["status"], "none" before the run exists
    total_tasks,      \* distributor: run["total_tasks"]
    completed_tasks,  \* distributor: run["completed_tasks"]
    tasks,            \* distributor: run["tasks"], by position
    posted,           \* distributor: the payload posted to the worker for each task
    in_flight         \* distributor: the tasks whose client.post is awaited

loopVars ==
    <<turns, contents, function_calls, idx, response_parts, steps, final_summary,
      done_called, account_info, offers, login_click_time, login_load_time,
      login_duration, clock, result, at, vals, ret>>

sessionVars == <<process, procAlive, ws, sockOpen, peerClosed, msg_id>>

sendVars == <<target_id, cur_cmd, discarded, returned>>

envVars == <<scenario, faults>>

taskVars == <<req, responses>>

frameVars ==
    <<wpc, peer, script, inb, sent, out_payload, message, recv_out, nread,
      call_start, calls>>

startVars == <<user_data_dir, tmp_dirs, polls, pages, ws_url>>

skillVars == <<package, registry, discovered, listing, task_count>>

poolVars == <<sessions, listener>>

distVars == <<run_status, total_tasks, completed_tasks, tasks, posted, in_flight>>

hostVars == <<startVars, skillVars, poolVars, distVars>>

outerVars == <<taskVars, frameVars, hostVars>>

vars == <<envVars, pc, exc, loopVars, sessionVars, sendVars, outerVars>>

DEFAULT_SUMMARY == <<"Agent did not produce a result.">>

USER_MESSAGE == <<"Test login on this website: ...">>

NoCmd == Cmd("", "")

NoMsg == [cmd |-> 0, msg |-> Event]

\* the skills the registry has discovered (src/worker/skills)
REGISTRY == {"login_checker"}

\* execute requests: a registered or an unknown skill, with GEMINI_API_KEY set
\* or not
Requests ==
    { [skill |-> "login_checker", api_key |-> TRUE],
      [skill |-> "account_audit", api_key |-> TRUE],
      [skill |-> "login_checker", api_key |-> FALSE] }

(***************************************************************************)
(* The skill registry (src/worker/skills/registry.py) and the timer of     *)
(* LoginCheckerSkill (src/worker/skills/login_checker.py)                  *)
(***************************************************************************)
\* a BaseSkill subclass found in a module of the package; broken: obj() raises
SkillClass(cls, name, broken) == [cls |-> cls, name |-> name, broken |-> broken]

LOGIN_CHECKER == SkillClass("LoginCheckerSkill", "login_checker", FALSE)

OFFER_CHECKER == SkillClass("OfferCheckerSkill", "offer_checker", FALSE)

ABSTRACT_SKILL == SkillClass("FormSkill", "form_skill", TRUE)

\* the package as it is, and packages with further modules dropped in
Packages ==
    { {LOGIN_CHECKER},
      {LOGIN_CHECKER, OFFER_CHECKER},
      {LOGIN_CHECKER, OFFER_CHECKER, ABSTRACT_SKILL},
      {ABSTRACT_SKILL} }

\* the names get_skill is called with
SkillNames == {"login_checker", "offer_checker", "form_skill", "account_audit"}

\* the order sorted() puts the names in
NAME_ORDER == <<"account_audit", "form_skill", "login_checker", "offer_checker">>

\* sorted(names)
Sorted(names) ==
    LET In(n) == n \in names
    IN SelectSeq(NAME_ORDER, In)

\* ", ".join(list of str)
RECURSIVE JoinComma(_)
JoinComma(ss) ==
    IF ss = <<>> THEN <<>>
    ELSE IF Len(ss) = 1 THEN <<ss[1]>>
    ELSE <<ss[1], ", ">> \o JoinComma(Tail(ss))

NamesIn(reg) == { c.name : c \in reg }

\* variant: a name stands for the whole list
AvailableFirstOnly(reg) ==
    IF reg = {} THEN <<"(none)">> ELSE <<Sorted(NamesIn(reg))[1]>>

\* ", ".join(sorted(_registry)) or "(none)"
Available(reg) ==
    IF reg = {} THEN <<"(none)">> ELSE JoinComma(Sorted(NamesIn(reg)))

\* f"Unknown skill '{name}'. Available: {available}"
UnknownSkillMessage(name, reg) ==
    <<"Unknown skill '", name, "'. Available: ">> \o Available(reg)

\* _discover: every class whose instantiation succeeds is registered
Discover(pkg) == { c \in pkg : ~c.broken }

\* the timer fields of a skill instance
Timers(click, load, duration) == [click |-> click, load |-> load, duration |-> duration]

\* variant: the registry hands out the instance it already has
NewInstanceCached(prev) == prev

\* _registry[name](): LoginCheckerSkill.__init__ sets the three fields to None
NewInstance(prev) == Timers(NoneVal, NoneVal, NoneVal)

\* the registry before its first use
SkillsIdle ==
    /\ package = {LOGIN_CHECKER}
    /\ registry = {}
    /\ discovered = FALSE
    /\ listing = <<>>
    /\ task_count = 0

(***************************************************************************)
(* Worker slots (src/worker/browser.py) and the distributor's run          *)
(* (src/distributor/app.py)                                                *)
(***************************************************************************)
MaxSessions == 2

PortChoices == 3

MaxRunTasks == 2

MaxStops == 2

Slots == 1..MaxSessions

\* random.randint(9200, 9399) draws from 200 ports; the model keeps the first
\* PortChoices of them
DEBUG_PORT_MIN == 9200

DebugPorts == DEBUG_PORT_MIN..(DEBUG_PORT_MIN + PortChoices - 1)

\* a slot without a session
NoSession ==
    [state |-> "none", port |-> 0, dir |-> NoneVal, alive |-> FALSE, peer |-> 0,
     ws |-> FALSE, handle |-> FALSE, ops |-> <<>>, stops |-> 0]

\* no worker slot holds a session
PoolIdle ==
    /\ sessions = [s \in Slots |-> NoSession]
    /\ listener = [p \in DebugPorts |-> 0]

\* test_runs is empty
DistIdle ==
    /\ run_status = "none"
    /\ total_tasks = 0
    /\ completed_tasks = 0
    /\ tasks = <<>>
    /\ posted = <<>>
    /\ in_flight = {}

\* the session before start: no profile directory, no poll made
StartIdle ==
    /\ user_data_dir = NoneVal
    /\ tmp_dirs = {}
    /\ polls = 0
    /\ pages = NoneVal
    /\ ws_url = NoneVal

Init ==
    /\ scenario \in Scenarios
    /\ req \in Requests
    /\ responses = <<>>
    /\ wpc = "idle"
    /\ peer = "none"
    /\ script = <<>>
    /\ inb = <<>>
    /\ sent = <<>>
    /\ out_payload = <<>>
    /\ message = <<>>
    /\ recv_out = [kind |-> "none", bytes |-> <<>>, text |-> <<>>]
    /\ nread = 0
    /\ call_start = 0
    /\ calls = 0
    /\ faults = 0
    /\ pc = "execute"
    /\ turns = 0
    /\ contents = <<>>
    /\ function_calls = <<>>
    /\ idx = 0
    /\ response_parts = <<>>
    /\ steps = <<>>
    /\ final_summary = DEFAULT_SUMMARY
    /\ done_called = FALSE
    /\ account_info = <<>>
    /\ offers = <<>>
    /\ login_click_time = NoneVal
    /\ login_load_time = NoneVal
    /\ login_duration = NoneVal
    /\ clock = 0
    /\ result = <<>>
    /\ at = ""
    /\ vals = <<>>
    /\ ret = NoneVal
    /\ exc = NoneVal
    /\ process = "None"
    /\ procAlive = FALSE
    /\ ws = "None"
    /\ sockOpen = FALSE
    /\ peerClosed = FALSE
    /\ msg_id = 0
    /\ target_id = 0
    /\ cur_cmd = NoCmd
    /\ discarded = <<>>
    /\ returned = NoMsg
    /\ StartIdle
    /\ SkillsIdle
    /\ PoolIdle
    /\ DistIdle

(***************************************************************************)
(* BrowserSession: stop, _send, start                                      *)
(***************************************************************************)
\* variant: the transport is closed, the process is left running
StopTransportOnly ==
    /\ ws' = "None"
    /\ sockOpen' = IF ws # "None" THEN FALSE ELSE sockOpen
    /\ UNCHANGED <<process, procAlive>>

\* BrowserSession.stop: close the transport if there is one, terminate (and
\* if need be kill) the process if there is one; _user_data_dir and the
\* directory it names are not touched
Stop ==
    /\ ws' = "None"
    /\ sockOpen' = IF ws # "None" THEN FALSE ELSE sockOpen
    /\ process' = "None"
    /\ procAlive' = IF process # "None" THEN FALSE ELSE procAlive

\* variant: the id advances by two
NextMsgIdSkipping(m) == m + 2

\* self._msg_id += 1
NextMsgId(m) == m + 1

\* variant: any message that carries an id is taken for the response
MatchesAnyId(data, target) == data.id # 0

\* data.get("id") == target_id
Matches(data, target) == data.id # 0 /\ data.id = target

\* _send up to and including self._ws.send(...)
SendBegin(c) ==
    /\ msg_id' = NextMsgId(msg_id)
    /\ target_id' = NextMsgId(msg_id)
    /\ cur_cmd' = c
    /\ discarded' = <<>>

\* _eval: "" for an undefined result, else str(value); other callers of _send
\* ignore the value
ValueOf(m) == m.value

InSend == target_id # 0 /\ pc \in {"start_page_enable", "start_runtime_enable", "tool"}

\* RuntimeError(f"CDP error: {data['error']}")
CdpErrorText(e) == <<"CDP error: ">> \o e

CLOSED_TEXT == <<"WebSocket closed by server">>

\* f"Error: {e}"
ErrorResult(e) == <<"Error: ">> \o e

\* variant: no except clause, the exception ends the loop
OnToolExceptionAbort == "finally"

\* where run_login_test continues after execute_tool raised: the except
\* clause stores the text and falls through to the rest of the iteration
OnToolException == "call_end"

\* for _ in range(30)
POLL_ATTEMPTS == 30

\* RuntimeError("Chrome did not start in time")
TIMEOUT_TEXT == <<"Chrome did not start in time">>

StartsWith(s, prefix) ==
    Len(s) >= Len(prefix) /\ SubSeq(s, 1, Len(prefix)) = prefix

\* an entry of the list the /json endpoint returns
Target(type, url, debugger_url) ==
    [type |-> type, url |-> url, webSocketDebuggerUrl |-> debugger_url]

EXTENSION_PAGE ==
    Target("page", <<"chrome-extension://", "ab/popup.html">>, <<"ws://", "ext">>)

BACKGROUND_PAGE ==
    Target("background_page", <<"chrome-extension://", "ab/bg.html">>, <<"ws://", "bg">>)

SERVICE_WORKER ==
    Target("service_worker", <<"https://", "site/sw.js">>, <<"ws://", "sw">>)

BLANK_PAGE == Target("page", <<"about:blank">>, <<"ws://", "blank">>)

SITE_PAGE == Target("page", <<"https://", "site/">>, <<"ws://", "site">>)

\* the lists a poll can return
DebugLists ==
    { <<>>,
      <<EXTENSION_PAGE>>,
      <<BACKGROUND_PAGE, SERVICE_WORKER>>,
      <<BLANK_PAGE>>,
      <<EXTENSION_PAGE, SITE_PAGE, BLANK_PAGE>>,
      <<SERVICE_WORKER, BLANK_PAGE, EXTENSION_PAGE, SITE_PAGE>> }

\* what one poll yields: urlopen raised, or the list it read
PollOutcomes == {NoneVal} \cup { Some(l) : l \in DebugLists }

\* variant: any entry of type page is taken
QualifiesAnyPage(page) == page.type = "page"

\* page.get("type") == "page" and not page.get("url", "").startswith("chrome-extension://")
Qualifies(page) ==
    page.type = "page" /\ ~StartsWith(page.url, <<"chrome-extension://">>)

\* the inner loop over pages: ws_url of the first entry that qualifies
FirstQualifying(list) ==
    LET q == SelectSeq(list, Qualifies)
    IN IF q = <<>> THEN NoneVal ELSE Some(q[1].webSocketDebuggerUrl)

\* tempfile.mkdtemp(prefix="qa_chrome_"): a directory that did not exist
Mkdtemp(existing) == <<"qa_chrome_", Cardinality(existing) + 1>>

\* start: _find_chrome, mkdtemp, Popen
StartLaunch ==
    /\ pc = "start"
    /\ \/ /\ pc' = "raised"
          /\ exc' = Some(<<"Chrome/Chromium not found.">>)
          /\ UNCHANGED <<sessionVars, startVars>>
       \/ /\ pc' = "start_poll"
          /\ user_data_dir' = Some(Mkdtemp(tmp_dirs))
          /\ tmp_dirs' = tmp_dirs \cup {Mkdtemp(tmp_dirs)}
          /\ process' = "Popen"
          /\ procAlive' = TRUE
          /\ UNCHANGED <<exc, ws, sockOpen, peerClosed, msg_id, polls, pages, ws_url>>
    /\ UNCHANGED <<loopVars, sendVars>>
    /\ UNCHANGED envVars
    /\ UNCHANGED <<taskVars, frameVars, skillVars, poolVars, distVars>>

\* start: one pass of the poll loop, or, the loop over without a target,
\* stop and the raise
StartPoll ==
    /\ pc = "start_poll"
    /\ IF polls < POLL_ATTEMPTS
       THEN \E out \in PollOutcomes :
               /\ polls' = polls + 1
               /\ pages' = out
               /\ ws_url' = IF out = NoneVal THEN NoneVal ELSE FirstQualifying(out[1])
               /\ pc' = IF ws_url' # NoneVal THEN "start_connect" ELSE "start_poll"
               /\ UNCHANGED <<exc, sessionVars, user_data_dir, tmp_dirs>>
       ELSE /\ Stop
            /\ pc' = "raised"
            /\ exc' = Some(TIMEOUT_TEXT)
            /\ UNCHANGED <<peerClosed, msg_id, startVars>>
    /\ UNCHANGED <<loopVars, sendVars>>
    /\ UNCHANGED envVars
    /\ UNCHANGED <<taskVars, frameVars, skillVars, poolVars, distVars>>

\* start: _WebSocket(ws_url), then the dispatch of Page.enable; the locals of
\* the poll loop are not read again
StartConnect ==
    /\ pc = "start_connect"
    /\ \/ /\ sockOpen' = TRUE
          /\ pc' = "raised"
          /\ exc' = Some(<<"WebSocket handshake failed">>)
          /\ UNCHANGED <<ws, msg_id, sendVars>>
       \/ /\ sockOpen' = TRUE
          /\ ws' = "WebSocket"
          /\ SendBegin(Cmd("Page.enable", ""))
          /\ pc' = "start_page_enable"
          /\ UNCHANGED <<exc, returned>>
    /\ polls' = 0
    /\ pages' = NoneVal
    /\ ws_url' = NoneVal
    /\ UNCHANGED <<loopVars, process, procAlive, peerClosed, user_data_dir, tmp_dirs>>
    /\ UNCHANGED envVars
    /\ UNCHANGED <<taskVars, frameVars, skillVars, poolVars, distVars>>

\* _send: one pass of the receive loop that reads a message with another id
\* or with none
RecvDiscard ==
    /\ InSend
    /\ ~peerClosed
    /\ Len(discarded) < MaxDiscard
    /\ \E m \in Incoming(target_id, cur_cmd) :
          /\ ~Matches(m, target_id)
          /\ discarded' = Append(discarded, m.id)
    /\ UNCHANGED <<pc, exc, loopVars, sessionVars, target_id, cur_cmd, returned>>
    /\ UNCHANGED envVars
    /\ UNCHANGED outerVars

\* _send: the pass that reads the message with the awaited id and returns its
\* result; the caller goes on
RecvResult ==
    /\ InSend
    /\ ~peerClosed
    /\ \E m \in Incoming(target_id, cur_cmd) :
          /\ Matches(m, target_id)
          /\ m.error = NoneVal
          /\ returned' = [cmd |-> target_id, msg |-> m]
          /\ CASE pc = "start_page_enable" ->
                    /\ SendBegin(Cmd("Runtime.enable", ""))
                    /\ pc' = "start_runtime_enable"
                    /\ UNCHANGED <<loopVars>>
               [] pc = "start_runtime_enable" ->
                    /\ pc' = "loop"
                    /\ contents' = <<[role |-> "user", parts |-> <<TextPart(USER_MESSAGE)>>]>>
                    /\ target_id' = 0
                    /\ discarded' = <<>>
                    /\ UNCHANGED <<msg_id, cur_cmd, turns, function_calls,
                                   idx, response_parts, steps, final_summary,
                                   done_called, account_info, offers,
                                   login_click_time, login_load_time,
                                   login_duration, clock, result, at, vals, ret>>
               [] OTHER ->
                    /\ vals' = Append(vals, ValueOf(m))
                    /\ target_id' = 0
                    /\ discarded' = <<>>
                    /\ UNCHANGED <<pc, msg_id, cur_cmd, turns, contents,
                                   function_calls, idx, response_parts, steps,
                                   final_summary, done_called, account_info, offers,
                                   login_click_time, login_load_time,
                                   login_duration, clock, result, at, ret>>
    /\ UNCHANGED <<exc, process, procAlive, ws, sockOpen, peerClosed>>
    /\ UNCHANGED envVars
    /\ UNCHANGED outerVars

\* what a _send that raises text e leads to: inside start the exception leaves
\* run_login_test (start is called before the try); inside a tool call the
\* loop's except clause turns it into the call's result
SendRaises(e) ==
    /\ target_id' = 0
    /\ discarded' = <<>>
    /\ IF pc = "tool"
       THEN /\ pc' = OnToolException
            /\ result' = ErrorResult(e)
            /\ UNCHANGED <<exc>>
       ELSE /\ pc' = "raised"
            /\ exc' = Some(e)
            /\ UNCHANGED <<result>>
    /\ UNCHANGED <<turns, contents, function_calls, idx, response_parts, steps,
                   final_summary, done_called, account_info, offers,
                   login_click_time, login_load_time, login_duration, clock,
                   at, vals, ret, cur_cmd, returned>>

\* _send: the pass that reads the awaited id with an error field
RecvError ==
    /\ InSend
    /\ ~peerClosed
    /\ faults < MaxFaults
    /\ faults' = faults + 1
    /\ \E m \in Incoming(target_id, cur_cmd) :
          /\ Matches(m, target_id)
          /\ m.error # NoneVal
          /\ SendRaises(CdpErrorText(m.error[1]))
    /\ UNCHANGED <<sessionVars, scenario>>
    /\ UNCHANGED outerVars

\* _send: send or recv fails (close frame, end of stream, socket error)
RecvFail ==
    /\ InSend
    /\ peerClosed \/ faults < MaxFaults
    /\ faults' = IF peerClosed THEN faults ELSE faults + 1
    /\ peerClosed' = TRUE
    /\ SendRaises(CLOSED_TEXT)
    /\ UNCHANGED <<process, procAlive, ws, sockOpen, msg_id, scenario>>
    /\ UNCHANGED outerVars

(***************************************************************************)
(* run_login_test                                                          *)
(***************************************************************************)
\* variant: one iteration too many
LoopContinuesInclusive(t) == t <= max_turns

\* for turn in range(max_turns): is there another iteration?
LoopContinues(t) == t < max_turns

\* variant: done is not recognised and goes to execute_tool
IsCompletionNever(name) == FALSE

\* if name == "done":
IsCompletion(name) == name = "done"

\* variant: the dict is written out without escaping the strings
DoneSummaryUnescaped(result_val, reason) ==
    <<"{", Q, "result", Q, ":", " ", Q>> \o result_val
    \o <<Q, ",", " ", Q, "reason", Q, ":", " ", Q>> \o reason
    \o <<Q, "}">>

\* json.dumps({"result": result_val, "reason": reason})
DoneSummary(result_val, reason) ==
    <<"{", Q, "result", Q, ":", " ", Q>> \o JsonEscape(result_val)
    \o <<Q, ",", " ", Q, "reason", Q, ":", " ", Q>> \o JsonEscape(reason)
    \o <<Q, "}">>

\* variant: only the pattern without the space is looked for
SuccessCompactOnly(summary) == Contains(summary, PassPatternCompact)

\* '"result": "pass"' in final_summary or '"result":"pass"' in final_summary
Success(summary) ==
    Contains(summary, PassPattern) \/ Contains(summary, PassPatternCompact)

\* variant: the loop does not break after done
BreakAfterTurnNever(d) == FALSE

\* if done_called: break  (after the calls of the turn)
BreakAfterTurn(d) == d

\* variant: the turn is logged as the loop variable, counted from 0
StepDescZeroBased(t, name, args) == [turn |-> t - 1, name |-> name, args |-> args]

\* the step description of a call: turn number, name, arguments
StepDesc(t, name, args) == [turn |-> t, name |-> name, args |-> args]

\* variant: the response does not carry the name of its call
FunctionResponseUnnamed(name, r) == [name |-> "tool", result |-> r]

\* {"functionResponse": {"name": name, "response": {"result": result}}}
FunctionResponse(name, r) == [name |-> name, result |-> r]

CurCall == function_calls[idx]

\* variant: only the prompt and the newest turn are kept
AppendTurnTrimming(cs, t) == <<cs[1], t>>

\* contents.append(...)
AppendTurn(cs, t) == Append(cs, t)

\* the for loop over function_calls moves on, or the turn's calls are drained
AfterCall(i, n) == IF i < n THEN "call" ELSE "turn_end"

\* one iteration of the for loop up to the end of the model request: the
\* request, the append of the response, the split into calls and the
\* no-tool-call exit
Request ==
    /\ pc = "loop"
    /\ LoopContinues(turns)
    /\ turns' = turns + 1
    /\ \/ /\ pc' = "finally"
          /\ exc' = Some(<<"URLError">>)
          /\ UNCHANGED <<contents, function_calls, idx, response_parts,
                         final_summary>>
       \/ \E parts \in ResponsesAt(scenario, turns + 1) :
             LET fcs == FunctionCallsOf(parts)
                 texts == TextPartsOf(parts)
             IN /\ contents' = AppendTurn(contents, [role |-> "model", parts |-> parts])
                /\ UNCHANGED exc
                /\ IF fcs = <<>>
                   THEN /\ final_summary' =
                              IF texts # <<>> THEN JoinLines(texts) ELSE final_summary
                        /\ pc' = "finally"
                        /\ UNCHANGED <<function_calls, idx, response_parts>>
                   ELSE /\ function_calls' = fcs
                        /\ idx' = 1
                        /\ response_parts' = <<>>
                        /\ pc' = "call"
                        /\ UNCHANGED final_summary
    /\ UNCHANGED <<steps, done_called, account_info, offers, login_click_time,
                   login_load_time, login_duration, clock, result, at, vals, ret,
                   sessionVars, sendVars>>
    /\ UNCHANGED envVars
    /\ UNCHANGED outerVars

\* range(max_turns) is exhausted
LoopExit ==
    /\ pc = "loop"
    /\ ~LoopContinues(turns)
    /\ pc' = "finally"
    /\ UNCHANGED <<exc, loopVars, sessionVars, sendVars>>
    /\ UNCHANGED envVars
    /\ UNCHANGED outerVars

\* one iteration of the loop over function_calls for a call that names the
\* completion tool
ProcessDone ==
    /\ pc = "call"
    /\ IsCompletion(CurCall.name)
    /\ steps' = Append(steps, StepDesc(turns, CurCall.name, CurCall.args))
    /\ done_called' = TRUE
    /\ account_info' = Get(CurCall.args, "account_info", <<>>)
    /\ offers' = Get(CurCall.args, "offers", <<>>)
    /\ final_summary' = DoneSummary(Get(CurCall.args, "result", <<"fail">>),
                                    Get(CurCall.args, "reason", <<"No reason given.">>))
    /\ result' = <<"Test complete.">>
    /\ response_parts' = Append(response_parts,
                                FunctionResponse(CurCall.name, <<"Test complete.">>))
    /\ idx' = idx + 1
    /\ pc' = AfterCall(idx, Len(function_calls))
    /\ clock' = clock + 1
    /\ UNCHANGED <<exc, turns, contents, function_calls, login_click_time,
                   login_load_time, login_duration, at, vals, ret,
                   sessionVars, sendVars>>
    /\ UNCHANGED envVars
    /\ UNCHANGED outerVars

\* the start of an iteration for any other call: the step entry, the click
\* timer, and the entry into execute_tool
BeginTool ==
    /\ pc = "call"
    /\ ~IsCompletion(CurCall.name)
    /\ steps' = Append(steps, StepDesc(turns, CurCall.name, CurCall.args))
    /\ login_click_time' =
          IF CurCall.name = "click" /\ login_click_time = NoneVal
          THEN Some(clock) ELSE login_click_time
    /\ clock' = clock + 1
    /\ at' = "entry"
    /\ vals' = <<>>
    /\ pc' = "tool"
    /\ UNCHANGED <<exc, turns, contents, function_calls, idx, response_parts,
                   final_summary, done_called, account_info, offers,
                   login_load_time, login_duration, result, ret,
                   sessionVars, sendVars>>
    /\ UNCHANGED envVars
    /\ UNCHANGED outerVars

\* execute_tool runs up to its next _send, its return or its exception
ToolStep ==
    /\ pc = "tool"
    /\ target_id = 0
    /\ LET nx == ExecuteToolNext(CurCall.name, CurCall.args, at, vals)
       IN CASE nx.op = "send" ->
                 /\ SendBegin(nx.cmd)
                 /\ at' = nx.at
                 /\ UNCHANGED <<pc, result>>
            [] nx.op = "return" ->
                 /\ result' = nx.text
                 /\ pc' = "call_end"
                 /\ UNCHANGED <<at, msg_id, target_id, cur_cmd, discarded>>
            [] OTHER ->
                 /\ result' = ErrorResult(nx.text)
                 /\ pc' = OnToolException
                 /\ UNCHANGED <<at, msg_id, target_id, cur_cmd, discarded>>
    /\ UNCHANGED <<exc, turns, contents, function_calls, idx, response_parts,
                   steps, final_summary, done_called, account_info, offers,
                   login_click_time, login_load_time, login_duration, clock,
                   vals, ret, process, procAlive, ws, sockOpen, peerClosed,
                   returned>>
    /\ UNCHANGED envVars
    /\ UNCHANGED outerVars

\* variant: the result is searched as it is, without lower()
TimerStopsCaseSensitive(name, r) ==
    /\ name = "get_current_url"
    /\ login_click_time # NoneVal
    /\ login_load_time = NoneVal
    /\ ~Contains(r, <<"login">>)

\* "login" not in result.lower(), with the other conditions of the timer stop
TimerStops(name, r) ==
    /\ name = "get_current_url"
    /\ login_click_time # NoneVal
    /\ login_load_time = NoneVal
    /\ ~Contains(Lower(r), <<"login">>)

\* the rest of the iteration after execute_tool: the timer stop and the
\* append of the functionResponse
EndCall ==
    /\ pc = "call_end"
    /\ IF TimerStops(CurCall.name, result)
       THEN /\ login_load_time' = Some(clock)
            /\ login_duration' = Some(clock - login_click_time[1])
       ELSE UNCHANGED <<login_load_time, login_duration>>
    /\ clock' = clock + 1
    /\ response_parts' = Append(response_parts, FunctionResponse(CurCall.name, result))
    /\ idx' = idx + 1
    /\ pc' = AfterCall(idx, Len(function_calls))
    /\ UNCHANGED <<exc, turns, contents, function_calls, steps, final_summary,
                   done_called, account_info, offers, login_click_time, result,
                   at, vals, ret, sessionVars, sendVars>>
    /\ UNCHANGED envVars
    /\ UNCHANGED outerVars

\* after the calls of the turn: break if done was called, else feed the
\* results back
TurnEnd ==
    /\ pc = "turn_end"
    /\ IF BreakAfterTurn(done_called)
       THEN /\ pc' = "finally"
            /\ UNCHANGED contents
       ELSE /\ contents' = AppendTurn(contents, [role |-> "user", parts |-> response_parts])
            /\ pc' = "loop"
    /\ UNCHANGED <<exc, turns, function_calls, idx, response_parts, steps,
                   final_summary, done_called, account_info, offers,
                   login_click_time, login_load_time, login_duration, clock,
                   result, at, vals, ret, sessionVars, sendVars>>
    /\ UNCHANGED envVars
    /\ UNCHANGED outerVars

\* finally: session.stop(), then the return of the result dict or the
\* propagation of the exception
Finally ==
    /\ pc = "finally"
    /\ Stop
    /\ IF exc = NoneVal
       THEN /\ ret' = Some([success |-> Success(final_summary),
                            summary |-> final_summary,
                            steps |-> steps,
                            login_duration |-> login_duration,
                            account_info |-> account_info,
                            offers |-> offers])
            /\ pc' = "returned"
       ELSE /\ pc' = "raised"
            /\ UNCHANGED ret
    /\ UNCHANGED <<exc, turns, contents, function_calls, idx, response_parts,
                   steps, final_summary, done_called, account_info, offers,
                   login_click_time, login_load_time, login_duration, clock,
                   result, at, vals, peerClosed, msg_id, sendVars>>
    /\ UNCHANGED envVars
    /\ UNCHANGED outerVars

(***************************************************************************)
(* execute_task (src/worker/app.py)                                        *)
(***************************************************************************)
\* str(e) of the KeyError get_skill raises: the repr of its message
UnknownSkillText(name) ==
    <<Q>> \o UnknownSkillMessage(name, { c \in {LOGIN_CHECKER} : c.name \in REGISTRY })
    \o <<Q>>

\* ExecuteResponse; task_id, skill and duration are carried along unchanged
ExecuteResponse(ok, summary, data, shots, logs) ==
    [success |-> ok, summary |-> summary, data |-> data, screenshots |-> shots,
     logs |-> logs]

\* traceback.format_exc() for the exception with text e
Traceback(e) == [traceback |-> e]

\* sorted(os.listdir(screenshot_dir)): the per-task directory is created
\* empty and no tool writes into it (screenshot fails before it writes)
ListScreenshots == <<>>

\* the skill-specific fields left in result after success, summary and steps
\* are popped
DataOf(r) ==
    [login_duration |-> r.login_duration, account_info |-> r.account_info,
     offers |-> r.offers]

\* variant: the handler only catches connection errors
BoundaryCatchesConnectionOnly(e) == e = CLOSED_TEXT

\* except Exception as e: around run_skill
BoundaryCatches(e) == TRUE

\* get_skill: name in _registry, else KeyError (caught by except KeyError)
IsRegistered(name) == name \in REGISTRY

\* run_skill(skill, request, api_key, headless, screenshot_dir): the agent
\* loop, entered at the start of the browser session
run_skill == "start"

\* execute_task up to the call of run_skill: the API key check and the
\* resolution of the skill
ExecuteTask ==
    /\ pc = "execute"
    /\ IF ~req.api_key
       THEN /\ responses' = Append(responses,
                   ExecuteResponse(FALSE, <<"GEMINI_API_KEY not configured">>,
                                   <<>>, <<>>, <<>>))
            /\ pc' = "responded"
       ELSE IF ~IsRegistered(req.skill)
       THEN /\ responses' = Append(responses,
                   ExecuteResponse(FALSE, UnknownSkillText(req.skill),
                                   <<>>, <<>>, <<>>))
            /\ pc' = "responded"
       ELSE /\ pc' = run_skill
            /\ UNCHANGED responses
    /\ UNCHANGED <<req, frameVars, envVars, exc, loopVars, sessionVars, sendVars,
                   hostVars>>

\* execute_task after run_skill: the response built from the returned dict,
\* or the except clause
Respond ==
    /\ pc \in {"returned", "raised"}
    /\ IF pc = "returned"
       THEN /\ responses' = Append(responses,
                   ExecuteResponse(ret[1].success, ret[1].summary, DataOf(ret[1]),
                                   ListScreenshots, ret[1].steps))
            /\ pc' = "responded"
       ELSE IF BoundaryCatches(exc[1])
       THEN /\ responses' = Append(responses,
                   ExecuteResponse(FALSE, <<"Agent error: ">> \o exc[1], <<>>,
                                   <<>>, <<Traceback(exc[1])>>))
            /\ pc' = "responded"
       ELSE /\ pc' = "propagated"
            /\ UNCHANGED responses
    /\ UNCHANGED <<req, frameVars, envVars, exc, loopVars, sessionVars, sendVars,
                   hostVars>>

Next ==
    \/ ExecuteTask
    \/ Respond
    \/ StartLaunch
    \/ StartPoll
    \/ StartConnect
    \/ RecvDiscard
    \/ RecvResult
    \/ RecvError
    \/ RecvFail
    \/ Request
    \/ LoopExit
    \/ ProcessDone
    \/ BeginTool
    \/ ToolStep
    \/ EndCall
    \/ TurnEnd
    \/ Finally

Spec == Init /\ [][Next]_vars

(***************************************************************************)
(* The _WebSocket client against a peer.  The peer either sends a script   *)
(* of frames (a message cut into fragments, with control frames in         *)
(* between) or echoes back the bytes of every frame the client writes.     *)
(* Text is ASCII, so encode("utf-8") and decode("utf-8") keep the bytes.   *)
(***************************************************************************)
MaxMsgLen == 3

MaxWsCalls == 2

\* a frame as the peer builds it
Frame(fin, opcode, masked, key, plain) ==
    [fin |-> fin, opcode |-> opcode, masked |-> masked, key |-> key, plain |-> plain]

\* the bytes of a peer frame (payload shorter than 126 bytes)
PeerBytes(f) ==
    <<(IF f.fin THEN 128 ELSE 0) + f.opcode,
      (IF f.masked THEN 128 ELSE 0) + Len(f.plain)>>
    \o (IF f.masked THEN f.key \o Mask(f.plain, f.key) ELSE f.plain)

RECURSIVE Wire(_)
Wire(fs) == IF fs = <<>> THEN <<>> ELSE PeerBytes(fs[1]) \o Wire(Tail(fs))

\* the message the peer sends
MESSAGE == [i \in 1..MaxMsgLen |-> 96 + i]

\* the ways to cut m into non-empty chunks
RECURSIVE Chunkings(_)
Chunkings(m) ==
    IF m = <<>> THEN { <<>> }
    ELSE UNION { { <<SubSeq(m, 1, k)>> \o r : r \in Chunkings(SubSeq(m, k + 1, Len(m))) }
                 : k \in 1..Len(m) }

PEER_KEY == <<7, 200, 33, 150>>

\* the data frames of a message cut into chunks: a text frame, then
\* continuation frames, FIN on the last
DataFrames(chunks, masked) ==
    [i \in 1..Len(chunks) |->
        Frame(i = Len(chunks), IF i = 1 THEN 1 ELSE 0, masked, PEER_KEY, chunks[i])]

Pings ==
    { Frame(TRUE, 9, FALSE, PEER_KEY, <<>>),
      Frame(TRUE, 9, FALSE, PEER_KEY, <<112, 105>>),
      Frame(TRUE, 9, TRUE, PEER_KEY, <<112>>) }

Closes ==
    { Frame(TRUE, 8, FALSE, PEER_KEY, <<>>),
      Frame(TRUE, 8, FALSE, PEER_KEY, <<3, 232>>) }

\* unsolicited pong frames
Pongs ==
    { Frame(TRUE, 10, FALSE, PEER_KEY, <<>>),
      Frame(TRUE, 10, FALSE, PEER_KEY, <<112, 111>>) }

InsertAt(fs, k, f) == SubSeq(fs, 1, k) \o <<f>> \o SubSeq(fs, k + 1, Len(fs))

Messages ==
    { DataFrames(c, m) :
        c \in Chunkings(MESSAGE) \cup { <<<<>>, MESSAGE>>, <<MESSAGE, <<>>>> },
        m \in BOOLEAN }

Scripts ==
    Messages
    \cup { InsertAt(fs[1], fs[2], fs[3]) :
             fs \in { x \in Messages \X (0..MaxMsgLen) \X (Pings \cup Closes \cup Pongs) :
                         x[2] <= Len(x[1]) } }
    \cup { fs \o DataFrames(<<<<122>>>>, FALSE) : fs \in Messages }
    \cup { SubSeq(fs, 1, Len(fs) - 1) : fs \in Messages }

\* the payloads the caller sends to the echoing peer
Payload(n) == [i \in 1..n |-> 32 + (i % 95)]

RoundTripLengths == {0, 1, 5, 125, 126, 127, 65535, 65536}

NoOutcome == [kind |-> "none", bytes |-> <<>>, text |-> <<>>]

InitClient ==
    /\ scenario = TextScenario
    /\ req = [skill |-> "login_checker", api_key |-> TRUE]
    /\ responses = <<>>
    /\ wpc = "ready"
    /\ sent = <<>>
    /\ message = <<>>
    /\ recv_out = [kind |-> "none", bytes |-> <<>>, text |-> <<>>]
    /\ nread = 0
    /\ call_start = 0
    /\ calls = 0
    /\ faults = 0
    /\ pc = "off"
    /\ turns = 0
    /\ contents = <<>>
    /\ function_calls = <<>>
    /\ idx = 0
    /\ response_parts = <<>>
    /\ steps = <<>>
    /\ final_summary = DEFAULT_SUMMARY
    /\ done_called = FALSE
    /\ account_info = <<>>
    /\ offers = <<>>
    /\ login_click_time = NoneVal
    /\ login_load_time = NoneVal
    /\ login_duration = NoneVal
    /\ clock = 0
    /\ result = <<>>
    /\ at = ""
    /\ vals = <<>>
    /\ ret = NoneVal
    /\ exc = NoneVal
    /\ process = "None"
    /\ procAlive = FALSE
    /\ ws = "None"
    /\ sockOpen = FALSE
    /\ peerClosed = FALSE
    /\ msg_id = 0
    /\ target_id = 0
    /\ cur_cmd = NoCmd
    /\ discarded = <<>>
    /\ returned = NoMsg
    /\ StartIdle

\* the client connected to a peer that sends a script of frames
InitWs ==
    /\ InitClient
    /\ SkillsIdle
    /\ PoolIdle
    /\ DistIdle
    /\ peer = "script"
    /\ script \in Scripts
    /\ inb = Wire(script)
    /\ out_payload = MESSAGE

\* the client connected to a peer that echoes the client's frames
InitEcho ==
    /\ InitClient
    /\ SkillsIdle
    /\ PoolIdle
    /\ DistIdle
    /\ peer = "echo"
    /\ script = <<>>
    /\ inb = <<>>
    /\ out_payload \in { Payload(n) : n \in RoundTripLengths }

\* send(data)
WsSend ==
    /\ wpc = "ready"
    /\ calls < MaxWsCalls
    /\ calls' = calls + 1
    /\ \E key \in MaskKeys :
          LET f == SendFrame(out_payload, key)
          IN /\ sent' = Append(sent, f)
             /\ inb' = IF peer = "echo" THEN inb \o f ELSE inb
    /\ UNCHANGED <<wpc, peer, script, out_payload, message, recv_out, nread,
                   call_start>>
    /\ UNCHANGED <<envVars, pc, exc, loopVars, sessionVars, sendVars, taskVars,
                   hostVars>>

\* recv() is called: message = b""
RecvCall ==
    /\ wpc = "ready"
    /\ calls < MaxWsCalls
    /\ calls' = calls + 1
    /\ wpc' = "recv"
    /\ message' = <<>>
    /\ recv_out' = NoOutcome
    /\ call_start' = nread
    /\ UNCHANGED <<peer, script, inb, sent, out_payload, nread>>
    /\ UNCHANGED <<envVars, pc, exc, loopVars, sessionVars, sendVars, taskVars,
                   hostVars>>

\* one pass of recv's loop that reads a whole frame
RecvFrame ==
    /\ wpc = "recv"
    /\ LET fr == ReadFrame(inb)
       IN /\ fr.ok
          /\ inb' = fr.rest
          /\ nread' = nread + 1
          /\ IF IsPing(fr.opcode)
             THEN /\ \E key \in MaskKeys :
                        sent' = Append(sent, PongFrame(fr.payload, key))
                  /\ UNCHANGED <<wpc, message, recv_out>>
             ELSE IF IsClose(fr.opcode)
             THEN /\ recv_out' = [kind |-> "error", bytes |-> <<>>, text |-> CLOSED_TEXT]
                  /\ wpc' = "ready"
                  /\ UNCHANGED <<sent, message>>
             ELSE /\ message' = Accumulate(message, fr.payload)
                  /\ IF fr.fin
                     THEN /\ recv_out' = [kind |-> "message",
                                          bytes |-> Accumulate(message, fr.payload),
                                          text |-> <<>>]
                          /\ wpc' = "ready"
                     ELSE UNCHANGED <<recv_out, wpc>>
                  /\ UNCHANGED sent
    /\ UNCHANGED <<peer, script, out_payload, call_start, calls>>
    /\ UNCHANGED <<envVars, pc, exc, loopVars, sessionVars, sendVars, taskVars,
                   hostVars>>

\* one pass of recv's loop in which _read_exact finds the stream ended
RecvEndOfStream ==
    /\ wpc = "recv"
    /\ ~ReadFrame(inb).ok
    /\ inb' = <<>>
    /\ recv_out' = [kind |-> "error", bytes |-> <<>>,
                    text |-> <<"WebSocket connection closed">>]
    /\ wpc' = "ready"
    /\ UNCHANGED <<peer, script, sent, out_payload, message, nread, call_start,
                   calls>>
    /\ UNCHANGED <<envVars, pc, exc, loopVars, sessionVars, sendVars, taskVars,
                   hostVars>>

\* close(): the close frame, then the socket is closed
WsClose ==
    /\ wpc = "ready"
    /\ wpc' = "closed"
    /\ \E key \in MaskKeys : sent' = Append(sent, CloseFrame(key))
    /\ UNCHANGED <<peer, script, inb, out_payload, message, recv_out, nread,
                   call_start, calls>>
    /\ UNCHANGED <<envVars, pc, exc, loopVars, sessionVars, sendVars, taskVars,
                   hostVars>>

NextWs ==
    \/ WsSend
    \/ RecvCall
    \/ RecvFrame
    \/ RecvEndOfStream
    \/ WsClose

SpecWs == InitWs /\ [][NextWs]_vars

SpecEcho == InitEcho /\ [][NextWs]_vars

(***************************************************************************)
(* Tasks resolving their skill one after the other: get_skill, the         *)
(* on_tool_call hook of the instance, parse_done; list_skills at any time. *)
(***************************************************************************)
MaxTasks == 2

MaxEvents == 3

\* what the skill tasks leave alone
skillRest ==
    <<envVars, turns, contents, function_calls, idx, response_parts, final_summary,
      done_called, account_info, offers, result, at, vals, sessionVars, sendVars,
      responses, frameVars, startVars, poolVars, distVars>>

InitSkills ==
    /\ InitClient
    /\ peer = "none"
    /\ script = <<>>
    /\ inb = <<>>
    /\ out_payload = <<>>
    /\ package \in Packages
    /\ registry = {}
    /\ discovered = FALSE
    /\ listing = <<>>
    /\ task_count = 0
    /\ PoolIdle
    /\ DistIdle

\* _registry after the _discover() call that opens get_skill and list_skills
AfterDiscover == IF discovered THEN registry ELSE Discover(package)

\* the tool calls a task reports to the hook: name and result
ToolEvents ==
    { [name |-> "click", result |-> <<"Clicked '", "#submit", "'. Current URL: ", "https://site/", "Login">>],
      [name |-> "fill", result |-> <<"Filled '", "#email", "' with value.">>],
      [name |-> "get_current_url", result |-> <<"https://site/", "Login">>],
      [name |-> "get_current_url", result |-> <<"https://site/", "home">>] }

\* get_skill(name) at the start of a task: discovery on first use, KeyError
\* for a name that is not registered, else a new instance of the class
GetSkill ==
    /\ pc \in {"off", "skill_failed", "skill_done"}
    /\ task_count < MaxTasks
    /\ task_count' = task_count + 1
    /\ discovered' = TRUE
    /\ registry' = AfterDiscover
    /\ steps' = <<>>
    /\ ret' = NoneVal
    /\ \E name \in SkillNames :
          /\ req' = [skill |-> name, api_key |-> TRUE]
          /\ IF name \notin NamesIn(AfterDiscover)
             THEN /\ exc' = Some(UnknownSkillMessage(name, AfterDiscover))
                  /\ pc' = "skill_failed"
                  /\ UNCHANGED <<login_click_time, login_load_time, login_duration>>
             ELSE LET inst == NewInstance(Timers(login_click_time, login_load_time,
                                                 login_duration))
                  IN /\ login_click_time' = inst.click
                     /\ login_load_time' = inst.load
                     /\ login_duration' = inst.duration
                     /\ exc' = NoneVal
                     /\ pc' = "skill"
    /\ UNCHANGED <<clock, package, listing>>
    /\ UNCHANGED skillRest

\* skill.on_tool_call(tool_name, tool_args, tool_result): the hook of
\* LoginCheckerSkill; BaseSkill's is a no-op
OnToolCall ==
    /\ pc = "skill"
    /\ Len(steps) < MaxEvents
    /\ \E ev \in ToolEvents :
          /\ steps' = Append(steps, [name |-> ev.name, result |-> ev.result,
                                     time |-> clock])
          /\ IF req.skill # "login_checker"
             THEN UNCHANGED <<login_click_time, login_load_time, login_duration>>
             ELSE /\ login_click_time' =
                        IF ev.name = "click" /\ login_click_time = NoneVal
                        THEN Some(clock) ELSE login_click_time
                  /\ IF TimerStops(ev.name, ev.result)
                     THEN /\ login_load_time' = Some(clock)
                          /\ login_duration' = Some(clock - login_click_time[1])
                     ELSE UNCHANGED <<login_load_time, login_duration>>
    /\ clock' = clock + 1
    /\ UNCHANGED <<pc, req, exc, ret, skillVars>>
    /\ UNCHANGED skillRest

\* skill.parse_done(args): the result carries self.login_duration
ParseDone ==
    /\ pc = "skill"
    /\ pc' = "skill_done"
    /\ ret' = Some([login_duration |-> login_duration])
    /\ UNCHANGED <<req, exc, steps, clock, login_click_time, login_load_time,
                   login_duration, skillVars>>
    /\ UNCHANGED skillRest

\* list_skills(): name of an instance of every registered class, by name
ListSkills ==
    /\ discovered' = TRUE
    /\ registry' = AfterDiscover
    /\ listing' = Sorted(NamesIn(AfterDiscover))
    /\ UNCHANGED <<pc, req, exc, ret, steps, clock, login_click_time,
                   login_load_time, login_duration, package, task_count>>
    /\ UNCHANGED skillRest

NextSkills ==
    \/ GetSkill
    \/ OnToolCall
    \/ ParseDone
    \/ ListSkills

SpecSkills == InitSkills /\ [][NextSkills]_vars

(***************************************************************************)
(* Sessions of concurrent tasks: each worker slot constructs its own       *)
(* BrowserSession, starts it and stops it; the slots share the host's      *)
(* ports and its temporary directory.                                      *)
(***************************************************************************)
\* the state of the single task followed by Spec
workerVars == <<envVars, pc, exc, loopVars, sessionVars, sendVars, taskVars, frameVars>>

FrameIdle ==
    /\ peer = "none"
    /\ script = <<>>
    /\ inb = <<>>
    /\ out_payload = <<>>

InitPool ==
    /\ InitClient
    /\ FrameIdle
    /\ SkillsIdle
    /\ DistIdle
    /\ PoolIdle

\* what the slots leave alone
poolRest == <<workerVars, user_data_dir, polls, pages, ws_url, skillVars, distVars>>

\* the port is free again when the process that listened on it is gone
Release(s) == [p \in DebugPorts |-> IF listener[p] = s THEN 0 ELSE listener[p]]

\* BrowserSession(): self._port = random.randint(9200, 9399)
NewSession(s) ==
    /\ sessions[s].state = "none"
    /\ \E p \in DebugPorts :
          sessions' = [sessions EXCEPT ![s] = [NoSession EXCEPT !.state = "new", !.port = p]]
    /\ UNCHANGED <<listener, tmp_dirs>>
    /\ UNCHANGED poolRest

\* start up to Popen: mkdtemp, then the browser is spawned with
\* --remote-debugging-port; it listens on the port unless a process holds it
Launch(s) ==
    /\ sessions[s].state = "new"
    /\ LET d == Mkdtemp(tmp_dirs)
           p == sessions[s].port
       IN /\ tmp_dirs' = tmp_dirs \cup {d}
          /\ sessions' = [sessions EXCEPT ![s].state = "launched",
                                          ![s].dir = Some(d),
                                          ![s].handle = TRUE,
                                          ![s].alive = TRUE]
          /\ listener' = IF listener[p] = 0 THEN [listener EXCEPT ![p] = s] ELSE listener
    /\ UNCHANGED poolRest

\* start: a poll of http://localhost:{port}/json is answered by the browser
\* that listens on the port, and _WebSocket(ws_url) connects to that browser
Connect(s) ==
    /\ sessions[s].state = "launched"
    /\ listener[sessions[s].port] # 0
    /\ sessions' = [sessions EXCEPT ![s].state = "connected",
                                    ![s].ws = TRUE,
                                    ![s].peer = listener[sessions[s].port]]
    /\ UNCHANGED <<listener, tmp_dirs>>
    /\ UNCHANGED poolRest

\* _WebSocket.close: the close frame, errors ignored, then the socket
WsCloseOps == <<"close_frame", "sock.close">>

\* variant: the process is terminated before the transport is closed
StopOpsProcessFirst(has_ws, has_process, exits) ==
    (IF has_process
     THEN <<"terminate">> \o (IF exits THEN <<"wait_exited">>
                              ELSE <<"wait_timeout", "kill">>)
     ELSE <<>>)
    \o (IF has_ws THEN WsCloseOps ELSE <<>>)

\* what stop does, in order: has_ws and has_process say whether self._ws and
\* self._process are set, exits whether the process ends within the 5 seconds
\* of wait
StopOps(has_ws, has_process, exits) ==
    (IF has_ws THEN WsCloseOps ELSE <<>>)
    \o (IF has_process
        THEN <<"terminate">> \o (IF exits THEN <<"wait_exited">>
                                 ELSE <<"wait_timeout", "kill">>)
        ELSE <<>>)

\* the session after stop: self._ws and self._process are None
Stopped(sn, exits) ==
    [sn EXCEPT !.ws = FALSE,
               !.handle = FALSE,
               !.alive = IF sn.handle THEN FALSE ELSE sn.alive,
               !.peer = 0,
               !.ops = StopOps(sn.ws, sn.handle, exits),
               !.stops = sn.stops + 1]

RECURSIVE StopCallsUpTo(_, _)
StopCallsUpTo(ss, n) == IF n = 0 THEN 0 ELSE ss[n].stops + StopCallsUpTo(ss, n - 1)

\* the calls of stop made so far, over all sessions
StopCalls(ss) == StopCallsUpTo(ss, MaxSessions)

\* start: no poll found a page target; stop, then the raise
GiveUp(s) ==
    /\ sessions[s].state = "launched"
    /\ \E exits \in BOOLEAN :
          sessions' = [sessions EXCEPT
                          ![s] = [Stopped(sessions[s], exits) EXCEPT !.state = "failed"]]
    /\ listener' = Release(s)
    /\ UNCHANGED tmp_dirs
    /\ UNCHANGED poolRest

\* stop, called on a session that is connected, or that was never started,
\* or whose stop has run already
StopSession(s) ==
    /\ sessions[s].state \in {"new", "connected", "stopped", "failed"}
    /\ StopCalls(sessions) < MaxStops
    /\ \E exits \in BOOLEAN :
          sessions' = [sessions EXCEPT
                          ![s] = [Stopped(sessions[s], exits) EXCEPT
                                     !.state = IF sessions[s].state = "connected"
                                               THEN "stopped" ELSE sessions[s].state]]
    /\ listener' = IF sessions[s].handle THEN Release(s) ELSE listener
    /\ UNCHANGED tmp_dirs
    /\ UNCHANGED poolRest

NextPool ==
    \/ \E s \in Slots : NewSession(s)
    \/ \E s \in Slots : Launch(s)
    \/ \E s \in Slots : Connect(s)
    \/ \E s \in Slots : GiveUp(s)
    \/ \E s \in Slots : StopSession(s)

SpecPool == InitPool /\ [][NextPool]_vars

(***************************************************************************)
(* The distributor: a run is created from the parsed tasks, every task is  *)
(* posted to the worker's /api/execute, and the answer is applied.         *)
(***************************************************************************)
\* a task as _ai_parse_test_plan returns it
ParsedTask(url, user, pw, instr) ==
    [target_url |-> url, username |-> user, password |-> pw, instructions |-> instr]

ParsedTasks ==
    { ParsedTask(<<"https://site/login">>, <<"jane">>, <<"pw1">>, <<>>),
      ParsedTask(<<"https://site/login">>, <<"joe">>, <<"pw2">>, <<"check the offers">>),
      ParsedTask(<<"https://shop/">>, <<"jane">>, <<"pw1">>, <<"open rewards">>) }

\* the lists of tasks a run is created from
Plans == UNION { [1..n -> ParsedTasks] : n \in 1..MaxRunTasks }

\* run["tasks"][task_id] as create_test_run builds it
TaskEntry(task_id, t) ==
    [task_id |-> task_id, target_url |-> t.target_url, username |-> t.username,
     password |-> t.password, instructions |-> t.instructions,
     status |-> "pending", result |-> NoneVal]

\* the payload of _dispatch_single_task
Payload_(task_id, task) ==
    [task_id |-> task_id,
     type |-> "login_test",
     target_url |-> task.target_url,
     credentials |-> [username |-> task.username, password |-> task.password],
     instructions |-> task.instructions]

\* the fields of ExecuteRequest that have no default
REQUIRED_FIELDS == {"task_id", "skill", "target_url"}

\* the validation of the request body against ExecuteRequest: every required
\* field is there; fields the model does not declare are ignored
Accepts(payload) == REQUIRED_FIELDS \subseteq DOMAIN payload

\* the result _dispatch_single_task builds in its except clause
FailedResult(task_id, e) ==
    [task_id |-> task_id, success |-> FALSE,
     summary |-> <<"Worker request failed: ">> \o e]

\* a response body of the worker
WorkerResult(task_id, ok) ==
    [task_id |-> task_id, success |-> ok, summary |-> <<"done">>]

UNPROCESSABLE == <<"Client error '422 Unprocessable Entity'">>

CONNECT_ERROR == <<"All connection attempts failed">>

\* a result posted to the callback endpoint
CallbackResult(task_id, ok) ==
    [task_id |-> task_id, success |-> ok, summary |-> <<"callback">>]

Terminal(st) == st \in {"completed", "failed"}

CountTerminal(ts) == Cardinality({ i \in 1..Len(ts) : Terminal(ts[i].status) })

\* variant: a result that reports no success is dropped
ApplyResultSuccessOnly(ts, i, r) ==
    IF r.success
    THEN [ts EXCEPT ![i].result = Some(r), ![i].status = "completed"]
    ELSE ts

\* _apply_result: the result and the status of the task
ApplyResult(ts, i, r) ==
    [ts EXCEPT ![i].result = Some(r),
               ![i].status = IF r.success THEN "completed" ELSE "failed"]

\* variant: the run is completed as soon as one task is done
UpdateRunStatusAny(rs, ts) ==
    IF \E i \in 1..Len(ts) : Terminal(ts[i].status) THEN "completed" ELSE rs

\* _update_run_status
UpdateRunStatus(rs, ts) ==
    IF \A i \in 1..Len(ts) : Terminal(ts[i].status) THEN "completed" ELSE rs

InitDispatch ==
    /\ InitClient
    /\ FrameIdle
    /\ SkillsIdle
    /\ PoolIdle
    /\ DistIdle

distRest == <<workerVars, startVars, skillVars, poolVars>>

\* create_test_run from the point where the tasks are parsed
CreateTestRun ==
    /\ run_status = "none"
    /\ \E plan \in Plans :
          /\ tasks' = [i \in 1..Len(plan) |-> TaskEntry(i, plan[i])]
          /\ total_tasks' = Len(plan)
          /\ posted' = [i \in 1..Len(plan) |-> NoneVal]
    /\ run_status' = "running"
    /\ completed_tasks' = 0
    /\ in_flight' = {}
    /\ UNCHANGED distRest

\* _dispatch_single_task up to the await of client.post.  gather starts the
\* coroutine of every task once, and each runs to this await before the
\* event loop handles a request that arrived after the run was created.
DispatchSingleTask(i) ==
    /\ i <= Len(tasks)
    /\ tasks[i].status = "pending"
    /\ posted[i] = NoneVal
    /\ tasks' = [tasks EXCEPT ![i].status = "running"]
    /\ posted' = [posted EXCEPT ![i] = Some(Payload_(i, tasks[i]))]
    /\ in_flight' = in_flight \cup {i}
    /\ UNCHANGED <<run_status, total_tasks, completed_tasks>>
    /\ UNCHANGED distRest

\* the rest of _dispatch_single_task: the worker's answer or the failure of
\* the request, then _apply_result with its recount and _update_run_status
WorkerResponds(i) ==
    /\ i \in in_flight
    /\ \E reached \in BOOLEAN, ok \in BOOLEAN :
          LET r == IF ~reached THEN FailedResult(i, CONNECT_ERROR)
                   ELSE IF ~Accepts(posted[i][1]) THEN FailedResult(i, UNPROCESSABLE)
                   ELSE WorkerResult(i, ok)
              after == ApplyResult(tasks, i, r)
          IN /\ tasks' = after
             /\ completed_tasks' = CountTerminal(after)
             /\ run_status' = UpdateRunStatus(run_status, after)
    /\ in_flight' = in_flight \ {i}
    /\ UNCHANGED <<total_tasks, posted>>
    /\ UNCHANGED distRest

\* receive_task_result: a result posted to the callback endpoint for a task
\* of the run.  The task ids are uuid4 values that leave the process in the
\* payload and in the answers of the GET endpoints, so a callback names a task
\* that was dispatched; it can come before or after the worker's answer, and
\* more than once.
ReceiveTaskResult(i) ==
    /\ i <= Len(tasks)
    /\ posted[i] # NoneVal
    /\ \E ok \in BOOLEAN :
          LET after == ApplyResult(tasks, i, CallbackResult(i, ok))
          IN /\ tasks' = after
             /\ completed_tasks' = CountTerminal(after)
             /\ run_status' = UpdateRunStatus(run_status, after)
    /\ UNCHANGED <<total_tasks, posted, in_flight>>
    /\ UNCHANGED distRest

NextDispatch ==
    \/ CreateTestRun
    \/ \E i \in 1..MaxRunTasks : DispatchSingleTask(i)
    \/ \E i \in 1..MaxRunTasks : WorkerResponds(i)
    \/ \E i \in 1..MaxRunTasks : ReceiveTaskResult(i)

SpecDispatch == InitDispatch /\ [][NextDispatch]_vars

\* The event loop runs every coroutine gather started, and every worker
\* request returns or fails (the client has a timeout of 300 seconds).
SpecDispatchFair ==
    /\ SpecDispatch
    /\ \A i \in 1..MaxRunTasks :
          /\ WF_vars(DispatchSingleTask(i))
          /\ WF_vars(WorkerResponds(i))

(***************************************************************************)
(* Properties                                                              *)
(***************************************************************************)
IsDoneCall(c) == c.name = "done"

DoneCallsOf(parts) == SelectSeq(FunctionCallsOf(parts), IsDoneCall)

\* every model response so far holds a tool call and none names done
AllResponsesCallTools ==
    \A i \in 1..Len(contents) :
        contents[i].role = "model" =>
            /\ FunctionCallsOf(contents[i].parts) # <<>>
            /\ DoneCallsOf(contents[i].parts) = <<>>

\* C1: the number of model requests never exceeds max_turns; and when every
\* response held a tool call and none named done, the loop ends only after
\* exactly max_turns requests and returns success = false with the default
\* summary.
C1_TurnBudget ==
    /\ turns <= max_turns
    /\ (pc \in {"finally", "returned"} /\ exc = NoneVal /\ AllResponsesCallTools)
          => turns = max_turns
    /\ (pc = "returned" /\ AllResponsesCallTools)
          => /\ ret[1].success = FALSE
             /\ ret[1].summary = DEFAULT_SUMMARY

C1_Witness ==
    /\ pc = "returned"
    /\ AllResponsesCallTools
    /\ turns = max_turns
    /\ Len(steps) >= max_turns

\* the last thing in the conversation is a model response without tool calls
NaturalTermination ==
    /\ Len(contents) >= 2
    /\ Last(contents).role = "model"
    /\ FunctionCallsOf(Last(contents).parts) = <<>>

\* C2: when a response holds no tool call, the run returns with that
\* response's text as summary and with success = false, whatever the text.
C2_NaturalTerminationFails ==
    (pc = "returned" /\ NaturalTermination)
        => /\ ret[1].success = FALSE
           /\ TextPartsOf(Last(contents).parts) # <<>>
                 => ret[1].summary = JoinLines(TextPartsOf(Last(contents).parts))

\* the first response holds a completion call, and the completion call
\* processed last in it has result "pass"
PassOnTurn1 ==
    /\ Len(contents) >= 2
    /\ DoneCallsOf(contents[2].parts) # <<>>
    /\ Get(Last(DoneCallsOf(contents[2].parts)).args, "result", <<"fail">>) = <<"pass">>

C4_NoLeakAfterRun ==
    pc \in {"returned", "raised"} => (~procAlive /\ ~sockOpen)

\* a step in which the _send of a tool call raises (transport failure or a
\* response with an error field): the wait ends without a value
ToolSendRaises == pc = "tool" /\ target_id # 0 /\ target_id' = 0 /\ vals' = vals

\* execute_tool is about to raise without sending
ToolRaisesDirectly ==
    /\ pc = "tool"
    /\ target_id = 0
    /\ ExecuteToolNext(CurCall.name, CurCall.args, at, vals).op = "raise"

\* C5: an exception in a non-completion tool call becomes the result text
\* "Error: <message>"; the remaining calls of the turn are still processed in
\* order, all results are fed back and the next turn follows.
C5_ToolExceptionRecovered ==
    [][ /\ ToolRaisesDirectly =>
              /\ pc' = "call_end"
              /\ result' = <<"Error: ">>
                    \o ExecuteToolNext(CurCall.name, CurCall.args, at, vals).text
        /\ ToolSendRaises =>
              /\ pc' = "call_end"
              /\ result'[1] = "Error: "
        /\ pc = "call_end" =>
              /\ response_parts' =
                    Append(response_parts, [name |-> CurCall.name, result |-> result])
              /\ idx' = idx + 1
              /\ pc' = IF idx < Len(function_calls) THEN "call" ELSE "turn_end"
        /\ (pc = "turn_end" /\ ~done_called) =>
              /\ Len(response_parts) = Len(function_calls)
              /\ contents' = Append(contents, [role |-> "user", parts |-> response_parts])
              /\ pc' = "loop"
      ]_vars

C5_Witness ==
    /\ pc = "loop"
    /\ turns < max_turns
    /\ Len(contents) >= 3
    /\ Last(contents).role = "user"
    /\ Len(Last(contents).parts) >= 2
    /\ Last(contents).parts[1].result[1] = "Error: "

\* C6: a transport failure or a CDP error response during a tool call ends
\* the task at once: the loop is left, no later call of the turn runs.
C6_FatalFailureAborts ==
    [][ ToolSendRaises => pc' \in {"finally", "raised"} ]_vars

\* C7: _send returns only the message whose id is the id of its command; a
\* message without an id or with another id is dropped and changes nothing
\* for the caller.
C7_SendCorrelation ==
    [][ /\ returned' # returned =>
              /\ target_id # 0
              /\ returned'.cmd = target_id
              /\ returned'.msg.id = target_id
              /\ returned'.msg.re = target_id
        /\ (discarded' # discarded /\ discarded' # <<>>) =>
              /\ Last(discarded') # target_id
              /\ UNCHANGED <<returned, vals, target_id, msg_id, pc>>
      ]_vars

C7_Witness ==
    /\ target_id >= 2
    /\ discarded = <<target_id - 1>>
    /\ returned.cmd = target_id - 1

\* C8: a command is dispatched only when no other is awaited, and its id is
\* the previous id plus one, the first being 1, also after an error.
C8_SequentialIds ==
    [][ /\ target_id \in {0, msg_id}
        /\ msg_id' # msg_id =>
              /\ msg_id' = msg_id + 1
              /\ target_id' = msg_id'
              /\ (target_id = 0 \/ returned'.cmd = target_id)
      ]_vars

C8_Witness ==
    /\ pc = "tool"
    /\ target_id # 0
    /\ faults >= 1
    /\ ~peerClosed

\* C9: processing a done call sends nothing and leaves the session as it
\* was; summary, account_info and offers come from the call's arguments.
C9_DoneLeavesSession ==
    [][ (pc = "call" /\ CurCall.name = "done") =>
            /\ UNCHANGED <<sessionVars, sendVars>>
            /\ done_called'
            /\ final_summary' =
                  DoneSummary(Get(CurCall.args, "result", <<"fail">>),
                              Get(CurCall.args, "reason", <<"No reason given.">>))
            /\ account_info' = Get(CurCall.args, "account_info", <<>>)
            /\ offers' = Get(CurCall.args, "offers", <<>>)
            /\ response_parts' =
                  Append(response_parts, [name |-> "done", result |-> <<"Test complete.">>])
            /\ pc' \in {"call", "turn_end"}
      ]_vars

C9_Witness ==
    /\ done_called
    /\ pc = "turn_end"
    /\ ws = "WebSocket"
    /\ msg_id >= 2

\* C10: in a turn whose response holds done and other calls, every call is
\* processed in the order received, and once the last is processed the loop
\* is left without another model request.
C10_DrainThenStop ==
    [][ /\ done_called => (turns' = turns /\ contents' = contents)
        /\ (done_called /\ pc # "finally" /\ pc' = "finally") =>
              /\ pc = "turn_end"
              /\ Len(response_parts) = Len(function_calls)
        /\ pc = "turn_end" =>
              /\ Len(response_parts) = Len(function_calls)
              /\ Len(steps) >= Len(function_calls)
              /\ \A i \in 1..Len(function_calls) :
                    /\ response_parts[i].name = function_calls[i].name
                    /\ steps[Len(steps) - Len(function_calls) + i] =
                          StepDesc(turns, function_calls[i].name, function_calls[i].args)
      ]_vars

C10_Witness ==
    /\ pc = "finally"
    /\ done_called
    /\ Len(function_calls) >= 2
    /\ function_calls[1].name = "done"
    /\ Len(response_parts) = Len(function_calls)

\* C11: every execute request gets exactly one structured response carrying
\* a success flag and a summary string; an exception raised while the skill is
\* resolved, the session is started or the agent loop runs becomes a
\* success=false response and never leaves execute_task.
C11_OneStructuredResponse ==
    /\ Len(responses) <= 1
    /\ pc # "propagated"
    /\ (pc = "responded") <=> (Len(responses) = 1)
    /\ pc # "responded" => ENABLED Next
    /\ \A i \in 1..Len(responses) :
          /\ responses[i].success \in BOOLEAN
          /\ Len(responses[i].summary) >= 1
    /\ pc = "responded" /\ (exc # NoneVal \/ req.skill \notin REGISTRY)
          => ~responses[1].success

C11_Witness ==
    /\ pc = "responded"
    /\ exc # NoneVal
    /\ turns >= 1
    /\ Len(responses) = 1
    /\ ~responses[1].success

\* C12: when a task fails fatally after some tool calls were executed, the
\* failed response still carries the step-log entries recorded before the
\* failure.
C12_PartialEvidenceKept ==
    pc = "responded" /\ exc # NoneVal
        => \A i \in 1..Len(steps) :
              \E j \in 1..Len(responses[1].logs) : responses[1].logs[j] = steps[i]

\* The frames the recv call in progress (or the last one) has consumed up to
\* frame n of the script, and the payloads of its data frames in order.
ConsumedUpTo(n) == SubSeq(script, call_start + 1, n)

RECURSIVE PlainOfData(_)
PlainOfData(fs) ==
    IF fs = <<>> THEN <<>>
    ELSE (IF fs[1].opcode \in {0, 1, 2} THEN fs[1].plain ELSE <<>>)
         \o PlainOfData(Tail(fs))

\* the frames are data frames, pings and closes only
Solicited(fs) == \A i \in 1..Len(fs) : fs[i].opcode \in {0, 1, 2, 8, 9}

\* recv reads the next frame of the script in this step
ReadsScriptFrame == wpc = "recv" /\ peer = "script" /\ nread' = nread + 1

\* C13: a ping read by recv, also between the fragments of a message, makes
\* recv write exactly one masked pong that echoes the ping's payload, is not
\* surfaced to the caller and leaves the accumulated bytes unchanged; a
\* message returned after a ping is the concatenation of the data frames only.
C13_PingAnswered ==
    [][ ReadsScriptFrame =>
          LET fr == script[nread']
              pong == sent'[Len(sent')]
          IN /\ fr.opcode = 9 =>
                   /\ Len(sent') = Len(sent) + 1
                   /\ SubSeq(sent', 1, Len(sent)) = sent
                   /\ pong[1] = 138
                   /\ pong[2] = 128 + Len(fr.plain)
                   /\ Len(pong) = 6 + Len(fr.plain)
                   /\ Mask(SubSeq(pong, 7, Len(pong)), SubSeq(pong, 3, 6)) = fr.plain
                   /\ message' = message
                   /\ recv_out' = recv_out
                   /\ wpc' = "recv"
             /\ fr.opcode # 9 => sent' = sent
             /\ (recv_out'.kind = "message"
                   /\ \E i \in call_start + 1..nread : script[i].opcode = 9)
                   => recv_out'.bytes = PlainOfData(ConsumedUpTo(nread'))
      ]_vars

C13_Witness ==
    /\ peer = "script"
    /\ recv_out.kind = "message"
    /\ recv_out.bytes = MESSAGE
    /\ \E i \in call_start + 2..nread - 1 :
          /\ script[i].opcode = 9
          /\ script[i].plain # <<>>
          /\ script[i].masked
    /\ \E j \in 1..Len(sent) : sent[j][1] = 138

\* C14: for a message cut at arbitrary points into non-final frames and one
\* final frame, recv returns exactly the concatenation of the payloads in
\* arrival order, returns only when the FIN frame has been read, and the next
\* call starts from an empty accumulator.
C14_Reassembly ==
    [][ /\ (ReadsScriptFrame /\ Solicited(ConsumedUpTo(nread'))) =>
             LET fr == script[nread']
             IN /\ (recv_out'.kind = "message") <=> (fr.opcode \notin {8, 9} /\ fr.fin)
                /\ recv_out'.kind = "message"
                      => recv_out'.bytes = PlainOfData(ConsumedUpTo(nread'))
        /\ (wpc = "ready" /\ wpc' = "recv") => message' = <<>> /\ recv_out'.kind = "none"
      ]_vars

C14_Witness ==
    /\ peer = "script"
    /\ recv_out.kind = "message"
    /\ recv_out.bytes = <<122>>
    /\ call_start = MaxMsgLen
    /\ nread = MaxMsgLen + 1
    /\ \A i \in 1..call_start : script[i].opcode \in {0, 1} /\ Len(script[i].plain) = 1

\* the bytes of the frame send writes for a payload of n bytes
FrameLength(n) == n + 4 + (IF n < 126 THEN 2 ELSE IF n < 65536 THEN 4 ELSE 10)

\* C15: a payload encoded by send (7-bit length below 126, 16-bit extended
\* length below 65536, 64-bit extended length otherwise, payload XORed with
\* the repeating 4-byte key) and decoded by recv is the original payload, for
\* the lengths 0, 125, 126, 65535 and 65536 and every mask key drawn.
C15_FrameRoundTrip ==
    [][ peer = "echo" =>
          /\ \A i \in 1..Len(sent') :
                sent'[i][1] = 129 =>
                   LET n == Len(out_payload)
                   IN /\ sent'[i][2] = 128 + (IF n < 126 THEN n
                                              ELSE IF n < 65536 THEN 126 ELSE 127)
                      /\ Len(sent'[i]) = FrameLength(n)
          /\ wpc = "recv" /\ inb # <<>> =>
                /\ recv_out' = [kind |-> "message", bytes |-> out_payload, text |-> <<>>]
                /\ wpc' = "ready"
                /\ Len(inb') = Len(inb) - FrameLength(Len(out_payload))
      ]_vars

C15_Witness ==
    /\ peer = "echo"
    /\ recv_out.kind = "message"
    /\ Len(recv_out.bytes) = 126
    /\ recv_out.bytes = out_payload
    /\ Len(sent) = 1
    /\ SubSeq(sent[1], 5, 8) = <<255, 1, 128, 77>>

\* the length a client frame declares and the bytes its length field takes
DeclaredLength(f) ==
    IF f[2] % 128 = 126 THEN Unpack(SubSeq(f, 3, 4))
    ELSE IF f[2] % 128 = 127 THEN Unpack(SubSeq(f, 3, 10))
    ELSE f[2] % 128

ExtendedBytes(f) == IF f[2] % 128 = 126 THEN 2 ELSE IF f[2] % 128 = 127 THEN 8 ELSE 0

\* C16: every frame the client writes (text frames of send, pongs of recv,
\* the close frame of close) has the mask bit set and carries a 4-byte key;
\* recv unmasks an incoming payload exactly when the frame's mask bit is set.
C16_ClientMasksPeerNeedNot ==
    [][ /\ \A i \in 1..Len(sent') :
              /\ sent'[i][2] >= 128
              /\ Len(sent'[i]) = 2 + ExtendedBytes(sent'[i]) + 4 + DeclaredLength(sent'[i])
        /\ ReadsScriptFrame /\ script[nread'].opcode \notin {8, 9}
              => message' = message \o script[nread'].plain
      ]_vars

C16_Witness ==
    /\ wpc = "closed"
    /\ \E i, j, k \in 1..Len(sent) :
          sent[i][1] = 129 /\ sent[j][1] = 138 /\ sent[k][1] = 136
    /\ nread >= 2
    /\ script[1].masked
    /\ script[1].plain # <<>>

\* C17: when recv reads a close frame, also after fragments of a message were
\* accumulated, it fails with the closed-connection error and returns no
\* message.
C17_CloseFails ==
    [][ ReadsScriptFrame /\ script[nread'].opcode = 8 =>
          /\ recv_out' = [kind |-> "error", bytes |-> <<>>, text |-> CLOSED_TEXT]
          /\ wpc' = "ready"
          /\ sent' = sent
      ]_vars

C17_Witness ==
    /\ peer = "script"
    /\ recv_out.kind = "error"
    /\ recv_out.text = CLOSED_TEXT
    /\ script[nread].opcode = 8
    /\ nread >= call_start + 2
    /\ message # <<>>

\* the text contains "login" in some capitalisation
MentionsLogin(r) == \E i \in 1..Len(r) : r[i] \in {"login", "Login", "LOGIN"}

NamesOf(calls_) == [i \in 1..Len(calls_) |-> calls_[i].name]

\* the run whose only response is fill, fill, click, get_current_url,
\* done(pass), with a URL that no longer mentions the login page
EndToEndLogin ==
    /\ pc = "returned"
    /\ turns = 1
    /\ NamesOf(function_calls) = <<"fill", "fill", "click", "get_current_url", "done">>
    /\ ~MentionsLogin(response_parts[4].result)
    /\ function_calls[5].args["result"] = Some(<<"pass">>)

\* C18: the login timer is started by the first click call only and never
\* restarted; it is stopped exactly once, at the first get_current_url call
\* after that click whose result does not contain "login" in any case;
\* login_duration in the final result is that one measurement and is null
\* when there was no such call; in the sequence fill, fill, click,
\* get_current_url (without "login"), done(pass) it is set and success is true.
C18_LoginTimer ==
    [][ /\ login_click_time # NoneVal => login_click_time' = login_click_time
        /\ login_click_time = NoneVal =>
              IF pc = "call" /\ CurCall.name = "click"
              THEN login_click_time' = Some(clock)
              ELSE login_click_time' = NoneVal
        /\ IF /\ pc = "call_end"
              /\ CurCall.name = "get_current_url"
              /\ login_click_time # NoneVal
              /\ login_load_time = NoneVal
              /\ ~MentionsLogin(result)
           THEN /\ login_load_time' = Some(clock)
                /\ login_duration' = Some(clock - login_click_time[1])
                /\ clock > login_click_time[1]
           ELSE /\ login_load_time' = login_load_time
                /\ login_duration' = login_duration
        /\ (login_duration = NoneVal) <=> (login_load_time = NoneVal)
        /\ pc' = "returned" => ret'[1].login_duration = login_duration'
        /\ EndToEndLogin' => ret'[1].login_duration # NoneVal /\ ret'[1].success
      ]_vars

C18_Witness ==
    /\ EndToEndLogin
    /\ ret[1].login_duration # NoneVal
    /\ ret[1].login_duration[1] > 0
    /\ ret[1].success

\* the nine browser primitives execute_tool knows
BrowserPrimitives ==
    {"navigate", "click", "fill", "get_page_text", "get_page_html", "screenshot",
     "get_current_url", "press_key", "wait"}

UnknownToolText(name) == <<"Unknown tool: ", name>>

\* C19: a tool name that is not one of the nine browser primitives yields the
\* text 'Unknown tool: <name>' as the call's result, without an exception and
\* without a CDP command being sent.
C19_UnknownTool ==
    [][ (pc \in {"call", "tool", "call_end"}
           /\ CurCall.name \notin BrowserPrimitives \cup {"done"}) =>
          /\ msg_id' = msg_id
          /\ target_id' = 0
          /\ cur_cmd' = cur_cmd
          /\ exc' = exc
          /\ pc = "call" => pc' = "tool"
          /\ pc = "tool" => pc' = "call_end" /\ result' = UnknownToolText(CurCall.name)
          /\ pc = "call_end" =>
                Last(response_parts') =
                    FunctionResponse(CurCall.name, UnknownToolText(CurCall.name))
      ]_vars

C19_Witness ==
    /\ pc = "call_end"
    /\ CurCall.name = "hover"
    /\ result = <<"Unknown tool: ", "hover">>
    /\ msg_id >= 2

\* C20: a screenshot call on a started session captures the page with
\* Page.captureScreenshot, writes the PNG under the session's screenshot
\* directory and returns the path, rather than failing.
C20_ScreenshotCaptured ==
    pc = "call_end" /\ CurCall.name = "screenshot" =>
        /\ result[1] = "Screenshot saved to "
        /\ cur_cmd.method = "Page.captureScreenshot"

\* C21: after stop, the temporary profile directory that start created for
\* the session no longer exists.
C21_ProfileRemovedByStop ==
    (user_data_dir # NoneVal /\ (pc = "returned" \/ exc = Some(TIMEOUT_TEXT))) =>
        user_data_dir[1] \notin tmp_dirs

\* an entry of type page whose URL is not an extension URL
PageNotExtension(e) == e.type = "page" /\ Head(e.url) # "chrome-extension://"

\* C26: start makes at most 30 polls; each poll counts as one attempt whatever
\* it yields; polling stops at the first poll whose list holds an entry of
\* type page with a URL outside chrome-extension://, and the first such entry
\* of that list is the one selected; the startup-timeout error is raised
\* exactly when 30 polls went by without such an entry.
C26_BoundedPoll ==
    [][ /\ polls' <= POLL_ATTEMPTS
        /\ (pc = "start_poll" /\ polls < POLL_ATTEMPTS) =>
              /\ polls' = polls + 1
              /\ exc' = NoneVal
              /\ IF pages' # NoneVal
                    /\ \E i \in 1..Len(pages'[1]) : PageNotExtension(pages'[1][i])
                 THEN /\ pc' = "start_connect"
                      /\ \E i \in 1..Len(pages'[1]) :
                            /\ PageNotExtension(pages'[1][i])
                            /\ \A j \in 1..(i - 1) : ~PageNotExtension(pages'[1][j])
                            /\ ws_url' = Some(pages'[1][i].webSocketDebuggerUrl)
                 ELSE /\ pc' = "start_poll"
                      /\ ws_url' = NoneVal
        /\ (pc = "start_poll" /\ polls = POLL_ATTEMPTS) =>
              /\ pc' = "raised"
              /\ exc' = Some(TIMEOUT_TEXT)
        /\ (exc' = Some(TIMEOUT_TEXT) /\ exc = NoneVal) =>
              /\ pc = "start_poll"
              /\ polls = POLL_ATTEMPTS
              /\ ws_url = NoneVal
      ]_vars

C26_Witness ==
    /\ pc = "start_connect"
    /\ polls = 3
    /\ pages = Some(<<SERVICE_WORKER, BLANK_PAGE, EXTENSION_PAGE, SITE_PAGE>>)
    /\ ws_url = Some(<<"ws://", "blank">>)

\* C27: when start raises the startup-timeout error, stop has run: the
\* browser process it spawned is terminated and the process handle and the
\* transport are cleared.
C27_TimeoutStopsBrowser ==
    exc = Some(TIMEOUT_TEXT) =>
        /\ process = "None"
        /\ ~procAlive
        /\ ws = "None"

C27_Witness ==
    /\ pc = "raised"
    /\ exc = Some(TIMEOUT_TEXT)
    /\ polls = POLL_ATTEMPTS
    /\ user_data_dir # NoneVal
    /\ ~procAlive

\* execute_tool is about to make its next _send or to return
ToolActs(name) == pc = "tool" /\ target_id = 0 /\ CurCall.name = name

\* C28: fill on an element that exists sends, in this order, the script that
\* focuses and selects the element, one Input.insertText carrying the value
\* and the script that dispatches the change event, and then returns; the
\* value is inserted once.
C28_FillInsertsOnce ==
    [][ (ToolActs("fill") /\ vals # <<>> /\ vals[1] # NOT_FOUND) =>
          /\ Len(vals) = 1 =>
                /\ cur_cmd = Eval("focus")
                /\ cur_cmd'.method = "Input.insertText"
                /\ cur_cmd'.text = CurCall.args["value"][1]
          /\ Len(vals) = 2 => cur_cmd' = Eval("change")
          /\ Len(vals) = 3 =>
                /\ pc' = "call_end"
                /\ msg_id' = msg_id
          /\ Len(vals) <= 3
      ]_vars

NotFoundText(call) == <<"Element '">> \o call.args["selector"][1] \o <<"' not found.">>

\* C29: when the selector of a click or a fill matches no element, the call
\* returns the text Element '<selector>' not found. after its one script
\* evaluation, without an exception and without a further command, and the
\* text becomes the functionResponse of the call while the loop goes on.
C29_NotFoundIsText ==
    [][ /\ ((ToolActs("click") \/ ToolActs("fill")) /\ vals = <<NOT_FOUND>>) =>
              /\ cur_cmd.method = "Runtime.evaluate"
              /\ msg_id' = msg_id
              /\ cur_cmd' = cur_cmd
              /\ exc' = exc
              /\ result' = NotFoundText(CurCall)
              /\ pc' = "call_end"
        /\ (pc = "call_end" /\ CurCall.name \in {"click", "fill"}
              /\ vals = <<NOT_FOUND>>) =>
              /\ Last(response_parts') = FunctionResponse(CurCall.name, NotFoundText(CurCall))
              /\ pc' \in {"call", "turn_end"}
              /\ exc' = NoneVal
      ]_vars

C29_Witness ==
    /\ pc = "call_end"
    /\ CurCall.name = "fill"
    /\ result = <<"Element '", "#email", "' not found.">>
    /\ cur_cmd = Eval("focus")
    /\ Len(response_parts) >= 1

\* the mouse event of the given type at the point the coordinate text names
MouseEventAt(type, coords) ==
    [method |-> "Input.dispatchMouseEvent", param |-> type, x |-> coords[2],
     y |-> coords[4], button |-> "left", clickCount |-> 1]

\* C30: click on an element that exists sends mousePressed, then
\* mouseReleased, both at the coordinates its first script evaluation
\* returned, then evaluates window.location.href and returns with that URL;
\* no third mouse event is sent.
C30_ClickPressRelease ==
    [][ (ToolActs("click") /\ vals # <<>> /\ vals[1] # NOT_FOUND) =>
          /\ Len(vals) = 1 =>
                /\ cur_cmd = Eval("coords")
                /\ cur_cmd' = MouseEventAt("mousePressed", vals[1])
          /\ Len(vals) = 2 => cur_cmd' = MouseEventAt("mouseReleased", vals[1])
          /\ Len(vals) = 3 => cur_cmd' = Eval("window.location.href")
          /\ Len(vals) = 4 =>
                /\ pc' = "call_end"
                /\ msg_id' = msg_id
                /\ result' = <<"Clicked '">> \o CurCall.args["selector"][1]
                               \o <<"'. Current URL: ">> \o vals[4]
          /\ Len(vals) <= 4
          /\ pc' = "call_end" => Len(vals) = 4
      ]_vars

C30_Witness ==
    /\ pc = "call_end"
    /\ CurCall.name = "click"
    /\ Len(vals) = 4
    /\ vals[1] = <<"{x:", "300.5", ",y:", "45", "}">>
    /\ cur_cmd = Eval("window.location.href")
    /\ result = <<"Clicked '", "#submit", "'. Current URL: ", "https://site/", "home">>

\* C24: get_skill on a name that is not registered raises the KeyError whose
\* message is Unknown skill '<name>'. Available: followed by every registered
\* name and no other; on a registered name it returns an instance and raises
\* nothing.
C24_UnknownSkill ==
    [][ task_count' = task_count + 1 =>
          /\ req'.skill \notin NamesIn(registry') =>
                /\ pc' = "skill_failed"
                /\ exc' # NoneVal
                /\ SubSeq(exc'[1], 1, 3) = <<"Unknown skill '", req'.skill, "'. Available: ">>
                /\ { exc'[1][i] : i \in 4..Len(exc'[1]) } \cap SkillNames
                      = NamesIn(registry')
                /\ registry' = {} => exc'[1][4] = "(none)"
          /\ req'.skill \in NamesIn(registry') =>
                /\ pc' = "skill"
                /\ exc' = NoneVal
      ]_vars

C24_Witness ==
    /\ pc = "skill_failed"
    /\ req.skill = "account_audit"
    /\ exc = Some(<<"Unknown skill '", "account_audit", "'. Available: ",
                    "login_checker", ", ", "offer_checker">>)

\* "login" not in result.lower()
LeavesLogin(r) == ~Contains(Lower(r), <<"login">>)

Least(S) == CHOOSE i \in S : \A j \in S : i <= j

\* the login duration a sequence of reported tool calls amounts to: from the
\* first click to the first later get_current_url whose result is off the
\* login page
DurationOf(evs) ==
    LET clicks == { i \in 1..Len(evs) : evs[i].name = "click" }
    IN IF clicks = {} THEN NoneVal
       ELSE LET loads == { j \in (Least(clicks) + 1)..Len(evs) :
                              /\ evs[j].name = "get_current_url"
                              /\ LeavesLogin(evs[j].result) }
            IN IF loads = {} THEN NoneVal
               ELSE Some(evs[Least(loads)].time - evs[Least(clicks)].time)

\* C25: the instance a task gets from get_skill has its three timer fields
\* unset, and whatever tasks ran before, the login_duration of a login_checker
\* task is the one its own reported tool calls amount to.
C25_FreshTimers ==
    /\ (pc = "skill" /\ steps = <<>>) =>
          /\ login_click_time = NoneVal
          /\ login_load_time = NoneVal
          /\ login_duration = NoneVal
    /\ (pc \in {"skill", "skill_done"} /\ req.skill = "login_checker") =>
          login_duration = DurationOf(steps)
    /\ (pc = "skill_done" /\ req.skill = "login_checker") =>
          ret = Some([login_duration |-> DurationOf(steps)])

C25_Witness ==
    /\ task_count = 2
    /\ pc = "skill_done"
    /\ req.skill = "login_checker"
    /\ Len(steps) = 3
    /\ steps[1].time = 3
    /\ login_duration = Some(2)

Live(s) == sessions[s].state \in {"launched", "connected"}

\* C22: two sessions that are live at the same time have different debug
\* ports and different profile directories, and the transport of a connected
\* session leads to the browser the session itself spawned.
C22_SessionsIsolated ==
    /\ \A s, t \in Slots :
          (s # t /\ Live(s) /\ Live(t)) =>
              /\ sessions[s].port # sessions[t].port
              /\ sessions[s].dir # sessions[t].dir
    /\ \A s \in Slots : sessions[s].state = "connected" => sessions[s].peer = s

\* C23: every payload the distributor posts to /api/execute has the fields
\* task_id, skill and target_url, credentials with username and password, and
\* instructions, so that the worker's request model accepts it.
C23_PayloadAccepted ==
    \A i \in 1..Len(posted) :
        posted[i] # NoneVal =>
            /\ {"task_id", "skill", "target_url", "credentials", "instructions"}
                  \subseteq DOMAIN posted[i][1]
            /\ DOMAIN posted[i][1].credentials = {"username", "password"}

Position(ops, o) == CHOOSE i \in 1..Len(ops) : ops[i] = o

Has(ops, o) == \E i \in 1..Len(ops) : ops[i] = o

\* C31: stop closes the transport before it terminates the process, kills
\* the process only after the wait ran out, and leaves the session without
\* transport and without process handle; on a session that has neither (never
\* started, or stopped before) it does nothing.
C31_StopOrder ==
    [][ \A s \in Slots :
          sessions'[s].stops = sessions[s].stops + 1 =>
             LET before == sessions[s]
                 after == sessions'[s]
                 ops == after.ops
             IN /\ ~after.ws /\ ~after.handle
                /\ before.handle => ~after.alive
                /\ Has(ops, "sock.close") <=> before.ws
                /\ Has(ops, "terminate") <=> before.handle
                /\ (before.ws /\ before.handle) =>
                      Position(ops, "sock.close") < Position(ops, "terminate")
                /\ Has(ops, "kill") <=> Has(ops, "wait_timeout")
                /\ Has(ops, "kill") =>
                      /\ Position(ops, "terminate") < Position(ops, "wait_timeout")
                      /\ Position(ops, "wait_timeout") < Position(ops, "kill")
                /\ (~before.ws /\ ~before.handle) =>
                      /\ ops = <<>>
                      /\ after = [before EXCEPT !.stops = before.stops + 1, !.ops = <<>>]
      ]_vars

C31_Witness ==
    \E s \in Slots :
        /\ sessions[s].state = "stopped"
        /\ sessions[s].stops = 1
        /\ sessions[s].ops = <<"close_frame", "sock.close", "terminate", "wait_timeout", "kill">>
        /\ \E t \in Slots : sessions[t].state = "new" /\ sessions[t].stops = 1

IsModelTurn(c) == c.role = "model"

\* the calls of the k-th model turn as the log should show them
LoggedCalls(k, parts) ==
    LET fcs == FunctionCallsOf(parts)
    IN [i \in 1..Len(fcs) |-> [turn |-> k, name |-> fcs[i].name, args |-> fcs[i].args]]

RECURSIVE LoggedUpTo(_, _)
LoggedUpTo(mts, k) ==
    IF k = 0 THEN <<>> ELSE LoggedUpTo(mts, k - 1) \o LoggedCalls(k, mts[k].parts)

\* the calls of the current turn that the loop has not reached yet
CallsAhead ==
    CASE pc = "call" -> Len(function_calls) - idx + 1
      [] pc \in {"tool", "call_end"} -> Len(function_calls) - idx
      [] OTHER -> 0

\* C32: the audit log is, entry for entry and in order, the calls received
\* from the model so far and processed, completion calls and failed calls
\* included, each with the 1-based number of the turn it came in; the turn
\* numbers never decrease.
C32_AuditLogComplete ==
    pc \in {"loop", "call", "tool", "call_end", "turn_end", "finally", "returned", "raised"} =>
       LET mts == SelectSeq(contents, IsModelTurn)
           all == LoggedUpTo(mts, Len(mts))
       IN /\ steps = SubSeq(all, 1, Len(all) - CallsAhead)
          /\ \A i \in 1..Len(steps) - 1 : steps[i].turn <= steps[i + 1].turn
          /\ \A i \in 1..Len(steps) : steps[i].turn >= 1

C32_Witness ==
    /\ pc = "returned"
    /\ Len(steps) >= 3
    /\ \E i \in 1..Len(steps) : steps[i].name = "done" /\ steps[i].turn = 2
    /\ \E i \in 1..Len(response_parts) :
          response_parts[i].result # <<>> /\ response_parts[i].result[1] = "Error: "

\* C33: the conversation only grows by appending; what it held before a
\* step is a prefix of what it holds after, unchanged.
C33_ConversationAppendOnly ==
    [][ /\ Len(contents) <= Len(contents')
        /\ SubSeq(contents', 1, Len(contents)) = contents
        /\ Len(contents') <= Len(contents) + 1 ]_vars

C33_Witness ==
    /\ Len(contents) = 4
    /\ contents[3].role = "user"
    /\ contents[3].parts # <<>>
    /\ pc = "call"

HasDoneCall(parts) ==
    \E i \in 1..Len(parts) : IsCall(parts[i]) /\ parts[i].name = "done"

\* C34: the conversation starts with the user prompt and alternates user,
\* model, user, ...; every tool-response turn answers the calls of the model
\* turn before it, one response per call, same order, same names; nothing
\* follows a model turn that called done.
C34_TurnsAlternate ==
    contents # <<>> =>
       /\ contents[1] = [role |-> "user", parts |-> <<TextPart(USER_MESSAGE)>>]
       /\ \A i \in 1..Len(contents) :
             contents[i].role = IF i % 2 = 1 THEN "user" ELSE "model"
       /\ \A i \in 2..Len(contents) :
             contents[i].role = "user" =>
                LET fcs == FunctionCallsOf(contents[i - 1].parts)
                    rs == contents[i].parts
                IN /\ Len(rs) = Len(fcs)
                   /\ Len(rs) >= 1
                   /\ \A j \in 1..Len(rs) : rs[j].name = fcs[j].name
       /\ \A i \in 1..Len(contents) :
             (contents[i].role = "model" /\ HasDoneCall(contents[i].parts)) =>
                i = Len(contents)

C34_Witness ==
    /\ pc = "returned"
    /\ Len(contents) = 4
    /\ Len(contents[3].parts) >= 2
    /\ contents[3].parts[1].name # contents[3].parts[2].name
    /\ HasDoneCall(contents[4].parts)
    /\ Len(FunctionCallsOf(contents[4].parts)) >= 2

\* C35: what recv returns is made of the payloads of the data frames (text,
\* binary, continuation) it consumed, in order; the payload of a pong frame is
\* neither returned as a message nor merged into one.
C35_OnlyDataReturned ==
    (peer = "script" /\ recv_out.kind = "message") =>
        /\ recv_out.bytes = PlainOfData(ConsumedUpTo(nread))
        /\ script[nread].opcode \in {0, 1, 2}

\* the completion call processed last
LastDone == Last(DoneCallsOf(Last(contents).parts))

\* C36: when done was called, the returned success flag is true exactly when
\* the result argument of the last processed completion call is "pass",
\* whatever reason, account_info and offers hold, a reason that quotes
\* "result": "pass" included.
C36_VerdictFromResult ==
    (pc = "returned" /\ done_called) =>
        (ret[1].success <=> Get(LastDone.args, "result", <<"fail">>) = <<"pass">>)

C36_Witness ==
    /\ pc = "returned"
    /\ done_called
    /\ ~ret[1].success
    /\ Get(LastDone.args, "result", <<"fail">>) = <<"fail">>
    /\ Contains(Get(LastDone.args, "reason", <<>>), PassPattern)
    /\ Contains(ret[1].account_info, PassPattern)

\* the text the except clause around execute_tool produces
IsErrorText(r) == r # <<>> /\ r[1] = "Error: "

\* C37: login_duration is set only at a get_current_url call that returned
\* the page URL; a get_current_url call that failed, with an "Error: ..."
\* result, does not stop the timer.
C37_TimerNeedsUrl ==
    [][ (login_duration = NoneVal /\ login_duration' # NoneVal) =>
           /\ pc = "call_end"
           /\ CurCall.name = "get_current_url"
           /\ ~IsErrorText(result)
      ]_vars

\* C38: whatever the order of dispatches, worker answers and callbacks, a
\* task that is completed or failed never goes back to running or pending,
\* and while the run is completed every task is completed or failed and
\* completed_tasks equals total_tasks.
C38_TerminalIsFinal ==
    [][ /\ \A i \in 1..Len(tasks) :
              Terminal(tasks[i].status) =>
                 /\ i <= Len(tasks')
                 /\ Terminal(tasks'[i].status)
        /\ run_status' = "completed" =>
              /\ \A i \in 1..Len(tasks') : Terminal(tasks'[i].status)
              /\ completed_tasks' = total_tasks'
              /\ total_tasks' = Len(tasks')
      ]_vars

C38_Witness ==
    /\ run_status = "completed"
    /\ Len(tasks) = 2
    /\ in_flight = {}
    /\ completed_tasks = 2
    /\ tasks[1].status = "completed"
    /\ tasks[1].result[1].summary = <<"callback">>
    /\ tasks[2].status = "failed"
    /\ tasks[2].result[1].summary = <<"Worker request failed: ">> \o UNPROCESSABLE

TaskDone(i) == i <= Len(tasks) /\ Terminal(tasks[i].status)

\* C39: every task of a created run is eventually completed or failed, also
\* when the worker request fails, and the run eventually is completed and
\* stays completed, provided every worker request returns or fails.
C39_RunCompletes ==
    /\ \A i \in 1..MaxRunTasks : (i <= Len(tasks)) ~> TaskDone(i)
    /\ (run_status = "running") ~> [](run_status = "completed")

C39_Witness ==
    /\ run_status = "completed"
    /\ in_flight = {}
    /\ Len(tasks) = 2
    /\ tasks[1].result[1].summary = <<"Worker request failed: ">> \o CONNECT_ERROR
    /\ tasks[2].result[1].summary = <<"Worker request failed: ">> \o UNPROCESSABLE

====
